---------------------------- MODULE Spec2Model ----------------------------
(***************************************************************************)
(* Model of bin/compare-gas.py: the gas-regression diff filter.            *)
(*                                                                         *)
(* A line of text is a sequence of characters.  A character is a one-      *)
(* element string, except that a complete ANSI SGR escape sequence         *)
(* (ESC [ digits/semicolons m) is one character of the model:              *)
(*   "R" is ESC[31m (red), "G" is ESC[32m (green), "Z" is ESC[m (reset),    *)
(*   "B" is ESC[1m (bold).                                                 *)
(* Python indexes from 0; every index of the model counts from 1.          *)
(* A float is an exact rational <<numerator, denominator>> with a positive *)
(* denominator; the inputs are chosen so that the IEEE double arithmetic   *)
(* of the program is exact on them (small integers, tolerances that are    *)
(* binary fractions).                                                      *)
(***************************************************************************)
EXTENDS Integers, Sequences, FiniteSets, TLC

VARIABLES
    raw_lines,       \* main: the lines read from standard input
    rel_tol,         \* main: args.rel_tolerance
    abs_tol,         \* main: args.abs_tolerance
    pc,              \* position of the program: "main", "loop", "exit"
    diff_lines,      \* main/filter: the rstripped input lines
    i,               \* filter: the scan index (1-based)
    filtered_lines,  \* filter: the output list
    has_exceed,      \* filter: the verdict
    emitted,         \* history: the input index each output line was appended for
    collapsed,       \* history: the input indices that received a collapsed line
    compared,        \* history: the calls of compare_gas_lines, with their results
    parse_calls,     \* history: the calls of parse_gas_line made on its own, with their results
    stdout,          \* main: the lines printed
    exit_status,     \* main: the status passed to sys.exit; -1 while running
    tables,          \* forge_tables.extract / toNamedDataFrame: the locals of the call
    imp,             \* anvil.with_impersonation: the locals and the RPCs issued
    erc20,           \* anvil.grab_erc20: the locals of the call
    anvil            \* anvil.start: the threads, the handler and the child process

\* The state of the other scripts of the repository; compare-gas leaves it alone.
other_programs == <<tables, imp, erc20, anvil>>

\* The state of compare-gas but for its position.
gas_filter == <<raw_lines, rel_tol, abs_tol, diff_lines, i, filtered_lines,
                has_exceed, emitted, collapsed, compared, parse_calls, stdout, exit_status>>

vars == <<raw_lines, rel_tol, abs_tol, pc, diff_lines, i, filtered_lines,
          has_exceed, emitted, collapsed, compared, parse_calls, stdout, exit_status,
          tables, imp, erc20, anvil>>

\* A script that is not running has no state.
NotRunning == <<>>

\* The None of Python; a parsed row is a pair, so the two never coincide.
None == <<>>

----------------------------------------------------------------------------
(* Characters and the str methods the program uses.                        *)

IsAnsi(c) == c \in {"R", "G", "Z", "B"}

IsSpace(c) == c \in {" ", "\t"}

IsDigit(c) == c \in {"0", "1", "2", "3", "4", "5", "6", "7", "8", "9"}

strip_ansi_codes(text) == SelectSeq(text, LAMBDA c : ~IsAnsi(c))

RECURSIVE lstrip(_)
lstrip(s) == IF s # <<>> /\ IsSpace(Head(s)) THEN lstrip(Tail(s)) ELSE s

RECURSIVE rstrip(_)
rstrip(s) ==
    IF s # <<>> /\ IsSpace(s[Len(s)]) THEN rstrip(SubSeq(s, 1, Len(s) - 1)) ELSE s

strip(s) == rstrip(lstrip(s))

startswith(s, p) == Len(s) >= Len(p) /\ SubSeq(s, 1, Len(p)) = p

\* The least index of character c in s, or 0.
Find(s, c) ==
    IF \E k \in 1..Len(s) : s[k] = c
    THEN CHOOSE k \in 1..Len(s) : s[k] = c /\ \A m \in 1..(k - 1) : s[m] # c
    ELSE 0

\* re.search(r"(^|\s)" + pat, line) for a literal pattern pat.
SearchAtBoundary(line, pat) ==
    \E pos \in 1..Len(line) :
        /\ pos + Len(pat) - 1 <= Len(line)
        /\ SubSeq(line, pos, pos + Len(pat) - 1) = pat
        /\ (IF pos = 1 THEN TRUE ELSE IsSpace(line[pos - 1]))

----------------------------------------------------------------------------
(* Exact rationals standing for the program's floats.                      *)

Abs(n) == IF n < 0 THEN -n ELSE n

RLe(a, b) == a[1] * b[2] <= b[1] * a[2]

REq(a, b) == a[1] * b[2] = b[1] * a[2]

RAbsDiff(a, b) == <<Abs(a[1] * b[2] - b[1] * a[2]), a[2] * b[2]>>

RAbsMul(a, b) == <<Abs(a[1] * b[1]), a[2] * b[2]>>

RECURSIVE Pow10(_)
Pow10(n) == IF n = 0 THEN 1 ELSE 10 * Pow10(n - 1)

DigitVal(c) ==
    CASE c = "0" -> 0 [] c = "1" -> 1 [] c = "2" -> 2 [] c = "3" -> 3 [] c = "4" -> 4
      [] c = "5" -> 5 [] c = "6" -> 6 [] c = "7" -> 7 [] c = "8" -> 8 [] c = "9" -> 9

RECURSIVE DigitsVal(_)
DigitsVal(ds) ==
    IF ds = <<>> THEN 0
    ELSE 10 * DigitsVal(SubSeq(ds, 1, Len(ds) - 1)) + DigitVal(ds[Len(ds)])

IsDigits(s) == s # <<>> /\ \A k \in 1..Len(s) : IsDigit(s[k])


----------------------------------------------------------------------------
(* parse_gas_line: the table-row pattern                                   *)
(*   ^\|\s*([^|]+?)\s*\|\s*(\d+(?:\.\d+)?(?:e[+-]?\d+)?)\s*\|              *)

\* \d+(?:\.\d+)? matched against the whole of s.
IsMantissa(s) ==
    LET dot == Find(s, ".")
    IN  IF dot = 0 THEN IsDigits(s)
        ELSE IsDigits(SubSeq(s, 1, dot - 1)) /\ IsDigits(SubSeq(s, dot + 1, Len(s)))

\* [+-]?\d+ matched against the whole of s.
IsExponent(s) ==
    IF s # <<>> /\ Head(s) \in {"+", "-"} THEN IsDigits(Tail(s)) ELSE IsDigits(s)

\* The number group matched against the whole of s.
IsNumber(s) ==
    LET e == Find(s, "e")
    IN  IF e = 0 THEN IsMantissa(s)
        ELSE IsMantissa(SubSeq(s, 1, e - 1)) /\ IsExponent(SubSeq(s, e + 1, Len(s)))

\* float(s) for a string s the number group matches.
FloatOf(s) ==
    LET e     == Find(s, "e")
        mant  == IF e = 0 THEN s ELSE SubSeq(s, 1, e - 1)
        expo  == IF e = 0 THEN <<>> ELSE SubSeq(s, e + 1, Len(s))
        dot   == Find(mant, ".")
        ipart == IF dot = 0 THEN mant ELSE SubSeq(mant, 1, dot - 1)
        fpart == IF dot = 0 THEN <<>> ELSE SubSeq(mant, dot + 1, Len(mant))
        edig  == IF expo # <<>> /\ Head(expo) \in {"+", "-"} THEN Tail(expo) ELSE expo
        eval  == IF expo # <<>> /\ Head(expo) = "-" THEN -DigitsVal(edig) ELSE DigitsVal(edig)
        shift == eval - Len(fpart)
        n     == DigitsVal(ipart \o fpart)
    IN  IF shift >= 0 THEN <<n * Pow10(shift), 1>> ELSE <<n, Pow10(-shift)>>

\* The mutation of parse_gas_line that strips leading whitespace once only,
\* before the diff prefix and not after it.
parse_gas_line_once(line) ==
    LET clean1 == lstrip(strip_ansi_codes(line))
        clean3 == IF clean1 # <<>> /\ Head(clean1) \in {"+", "-"} THEN Tail(clean1) ELSE clean1
    IN  IF clean3 = <<>> \/ Head(clean3) # "|" THEN None
        ELSE
          LET rest1 == Tail(clean3)
              bar2  == Find(rest1, "|")
          IN  IF bar2 <= 1 THEN None
              ELSE
                LET rest2 == SubSeq(rest1, bar2 + 1, Len(rest1))
                    bar3  == Find(rest2, "|")
                    num   == strip(SubSeq(rest2, 1, bar3 - 1))
                IN  IF bar3 = 0 \/ ~IsNumber(num) THEN None
                    ELSE <<strip(SubSeq(rest1, 1, bar2 - 1)), FloatOf(num)>>

\* None, or <<function_name, gas_value>>.
parse_gas_line(line) ==
    LET clean1 == lstrip(strip_ansi_codes(line))
        clean2 == IF clean1 # <<>> /\ Head(clean1) \in {"+", "-"} THEN Tail(clean1) ELSE clean1
        clean3 == lstrip(clean2)
    IN  IF clean3 = <<>> \/ Head(clean3) # "|" THEN None
        ELSE
          LET rest1 == Tail(clean3)
              bar2  == Find(rest1, "|")
          IN  IF bar2 <= 1 THEN None      \* no second bar, or an empty name group
              ELSE
                LET rest2 == SubSeq(rest1, bar2 + 1, Len(rest1))
                    bar3  == Find(rest2, "|")
                    num   == strip(SubSeq(rest2, 1, bar3 - 1))
                IN  IF bar3 = 0 \/ ~IsNumber(num) THEN None
                    ELSE <<strip(SubSeq(rest1, 1, bar2 - 1)), FloatOf(num)>>

----------------------------------------------------------------------------
(* compare_gas_lines and math.isclose                                      *)

\* The mutation of math.isclose that measures the relative difference against
\* its first argument alone.
IsClose_first(a, b, rel, tol) ==
    \/ REq(a, b)
    \/ RLe(RAbsDiff(a, b), RAbsMul(rel, a))
    \/ RLe(RAbsDiff(a, b), tol)

\* The mutation of math.isclose that measures the relative difference against
\* the smaller of the two magnitudes.
IsClose_strong(a, b, rel, tol) ==
    \/ REq(a, b)
    \/ (RLe(RAbsDiff(a, b), RAbsMul(rel, b)) /\ RLe(RAbsDiff(a, b), RAbsMul(rel, a)))
    \/ RLe(RAbsDiff(a, b), tol)

\* math.isclose(a, b, rel_tol=rel, abs_tol=tol) for finite a, b and non-negative
\* tolerances: a == b, or |b-a| <= |rel*b|, or |b-a| <= |rel*a|, or |b-a| <= tol.
IsClose(a, b, rel, tol) ==
    \/ REq(a, b)
    \/ RLe(RAbsDiff(a, b), RAbsMul(rel, b))
    \/ RLe(RAbsDiff(a, b), RAbsMul(rel, a))
    \/ RLe(RAbsDiff(a, b), tol)

\* The mutation of compare_gas_lines that takes a zero old value as always
\* exceeding, whatever the tolerances.
compare_gas_lines_zero(old_line, new_line, rel, tol) ==
    LET old_parsed == parse_gas_line(old_line)
        new_parsed == parse_gas_line(new_line)
    IN  IF old_parsed = None \/ new_parsed = None THEN TRUE
        ELSE IF old_parsed[1] # new_parsed[1] THEN TRUE
        ELSE IF old_parsed[2][1] = 0 /\ new_parsed[2][1] # 0 THEN TRUE
        ELSE ~IsClose(old_parsed[2], new_parsed[2], rel, tol)

\* The mutation of compare_gas_lines that asks for both tolerances at once.
compare_gas_lines_and(old_line, new_line, rel, tol) ==
    LET old_parsed == parse_gas_line(old_line)
        new_parsed == parse_gas_line(new_line)
    IN  IF old_parsed = None \/ new_parsed = None THEN TRUE
        ELSE IF old_parsed[1] # new_parsed[1] THEN TRUE
        ELSE ~(/\ RLe(RAbsDiff(old_parsed[2], new_parsed[2]), tol)
               /\ \/ RLe(RAbsDiff(old_parsed[2], new_parsed[2]), RAbsMul(rel, old_parsed[2]))
                  \/ RLe(RAbsDiff(old_parsed[2], new_parsed[2]), RAbsMul(rel, new_parsed[2])))

\* TRUE when the difference exceeds tolerance (the pair should be kept).
compare_gas_lines(old_line, new_line, rel, tol) ==
    LET old_parsed == parse_gas_line(old_line)
        new_parsed == parse_gas_line(new_line)
    IN  IF old_parsed = None \/ new_parsed = None THEN TRUE
        ELSE IF old_parsed[1] # new_parsed[1] THEN TRUE
        ELSE ~IsClose(old_parsed[2], new_parsed[2], rel, tol)

----------------------------------------------------------------------------
(* The line classifiers                                                    *)

_is_context_line(line) ==
    /\ line # <<>>
    /\ line[1] = " "
    /\ ~(\/ SearchAtBoundary(line, <<"R", "-">>)
         \/ SearchAtBoundary(line, <<"-", "|">>)
         \/ SearchAtBoundary(line, <<"-">>))
    /\ ~(\/ SearchAtBoundary(line, <<"G", "+">>)
         \/ SearchAtBoundary(line, <<"+", "|">>)
         \/ SearchAtBoundary(line, <<"+">>))

_is_minus(line) ==
    \/ SearchAtBoundary(line, <<"R", "-">>)
    \/ SearchAtBoundary(line, <<"-", "|">>)
    \/ (startswith(lstrip(line), <<"-">>) /\ ~startswith(lstrip(line), <<"-", "-", "-">>))

_is_plus(line) ==
    \/ SearchAtBoundary(line, <<"G", "+">>)
    \/ SearchAtBoundary(line, <<"+", "|">>)
    \/ (startswith(lstrip(line), <<"+">>) /\ ~startswith(lstrip(line), <<"+", "+", "+">>))

\* re.sub(r"^((?:\x1b\[[0-9;]*m)*)\+", r"\1 ", pl, count=1)
RECURSIVE CollapseLine(_)
CollapseLine(pl) ==
    IF pl = <<>> THEN pl
    ELSE IF IsAnsi(Head(pl))
         THEN LET t == CollapseLine(Tail(pl))
              IN  IF t = Tail(pl) THEN pl ELSE <<Head(pl)>> \o t
    ELSE IF Head(pl) = "+" THEN <<" ">> \o Tail(pl)
    ELSE pl


----------------------------------------------------------------------------
(* filter_colored_diff_lines: one chunk                                    *)

\* dict[key] = value
MapPut(m, key, value) ==
    [x \in (DOMAIN m) \cup {key} |-> IF x = key THEN value ELSE m[x]]

\* dict.get(key, [])
MapGet(m, key) == IF key \in DOMAIN m THEN m[key] ELSE <<>>

\* The orders in which a for loop may visit the elements of a set.
Orders(S) ==
    {o \in [1..Cardinality(S) -> S] : \A a, b \in DOMAIN o : a # b => o[a] # o[b]}

\* One of them: the order a run uses when nothing else is said.
SomeOrder(S) == CHOOSE o \in Orders(S) : TRUE

\* diff_lines[k].rstrip()
LineAt(lines, idx) == rstrip(lines[idx])

IsChange(l) == _is_minus(l) \/ _is_plus(l)

\* The branch of the loop body taken for a line: the if-chain of the scan.
Branch(line) ==
    IF _is_context_line(line) THEN "context"
    ELSE IF _is_minus(line) \/ _is_plus(line) THEN "chunk"
    ELSE "misc"

\* The mutation of ChunkEnd that ends every chunk after its first line.
ChunkEnd_one(lines, k) == k + 1

\* The inner while loop: the first j >= k whose line is neither '-' nor '+'.
RECURSIVE ChunkEnd(_, _)
ChunkEnd(lines, k) ==
    IF k <= Len(lines) /\ IsChange(LineAt(lines, k)) THEN ChunkEnd(lines, k + 1) ELSE k

\* The normalized content of a non-data row.
NormOf(l) ==
    LET s == lstrip(strip_ansi_codes(l))
    IN  IF s = <<>> \/ Head(s) \in {"+", "-"} THEN lstrip(Tail(s)) ELSE s

EmptyMaps == [minus_map |-> <<>>, plus_map |-> <<>>, nd_minus |-> <<>>, nd_plus |-> <<>>]

\* "for idx, l in chunk": the data rows keyed by function name (a later row of
\* the same name and side replaces the earlier one), the non-data rows grouped
\* by normalized content as lists of <<idx, length>>.
RECURSIVE BuildMaps(_, _, _, _)
BuildMaps(lines, k, j, maps) ==
    IF k >= j THEN maps
    ELSE
      LET l      == LineAt(lines, k)
          parsed == parse_gas_line(l)
          norm   == NormOf(l)
          length == Len(strip_ansi_codes(l))
          next   ==
            IF parsed # None
            THEN IF _is_minus(l)
                 THEN [maps EXCEPT !.minus_map = MapPut(@, parsed[1], k)]
                 ELSE IF _is_plus(l)
                      THEN [maps EXCEPT !.plus_map = MapPut(@, parsed[1], k)]
                      ELSE maps
            ELSE IF _is_minus(l)
                 THEN [maps EXCEPT !.nd_minus =
                          MapPut(@, norm, Append(MapGet(@, norm), <<k, length>>))]
                 ELSE IF _is_plus(l)
                      THEN [maps EXCEPT !.nd_plus =
                               MapPut(@, norm, Append(MapGet(@, norm), <<k, length>>))]
                      ELSE maps
      IN  BuildMaps(lines, k + 1, j, next)

\* What the chunk's loops build: keep_map (idx -> output line), skip_idx, the
\* verdict of the chunk, and the history of comparisons and collapsed indices.
EmptyAcc == [keep_map |-> <<>>, skip_idx |-> {}, exceed |-> FALSE,
             cmp |-> {}, coll |-> {}]

\* The mutation of PairedLoop in which the verdict of the pair visited last
\* replaces the verdict so far.
RECURSIVE PairedLoop_last(_, _, _, _, _, _, _)
PairedLoop_last(lines, maps, order, n, acc, rel, tol) ==
    IF n > Len(order) THEN acc
    ELSE
      LET func == order[n]
          mi   == maps.minus_map[func]
          pi   == maps.plus_map[func]
          ml   == LineAt(lines, mi)
          pl   == LineAt(lines, pi)
          exc  == compare_gas_lines(ml, pl, rel, tol)
          call == [old |-> ml, new |-> pl, result |-> exc]
          next ==
            IF exc
            THEN [acc EXCEPT !.keep_map = MapPut(MapPut(@, mi, ml), pi, pl),
                             !.exceed = TRUE,
                             !.cmp = @ \cup {call}]
            ELSE [acc EXCEPT !.keep_map = MapPut(@, mi, CollapseLine(pl)),
                             !.skip_idx = @ \cup {pi},
                             !.exceed = FALSE,
                             !.coll = @ \cup {mi},
                             !.cmp = @ \cup {call}]
      IN  PairedLoop_last(lines, maps, order, n + 1, next, rel, tol)

\* "for func in list(minus_map.keys() & plus_map.keys())", visited in `order`.
RECURSIVE PairedLoop(_, _, _, _, _, _, _)
PairedLoop(lines, maps, order, n, acc, rel, tol) ==
    IF n > Len(order) THEN acc
    ELSE
      LET func == order[n]
          mi   == maps.minus_map[func]
          pi   == maps.plus_map[func]
          ml   == LineAt(lines, mi)
          pl   == LineAt(lines, pi)
          exc  == compare_gas_lines(ml, pl, rel, tol)
          call == [old |-> ml, new |-> pl, result |-> exc]
          next ==
            IF exc
            THEN [acc EXCEPT !.keep_map = MapPut(MapPut(@, mi, ml), pi, pl),
                             !.exceed = TRUE,
                             !.cmp = @ \cup {call}]
            ELSE [acc EXCEPT !.keep_map = MapPut(@, mi, CollapseLine(pl)),
                             !.skip_idx = @ \cup {pi},
                             !.coll = @ \cup {mi},
                             !.cmp = @ \cup {call}]
      IN  PairedLoop(lines, maps, order, n + 1, next, rel, tol)

\* A set of indices, each kept with its own line.
KeepAll(lines, keep_map, idxs) ==
    [x \in (DOMAIN keep_map) \cup idxs |-> IF x \in idxs THEN LineAt(lines, x) ELSE keep_map[x]]

\* The mutation of SingletonLoops that keeps the rows and forgets the verdict.
SingletonLoops_quiet(lines, maps, acc) ==
    LET both == (DOMAIN maps.minus_map) \cap (DOMAIN maps.plus_map)
        left == {maps.minus_map[f] : f \in (DOMAIN maps.minus_map) \ both}
                  \cup {maps.plus_map[f] : f \in (DOMAIN maps.plus_map) \ both}
    IN  [acc EXCEPT !.keep_map = KeepAll(lines, @, left)]

\* "for mi, ml in minus_map.values()" and "for pi, pl in plus_map.values()",
\* after the paired names were deleted from both maps.
SingletonLoops(lines, maps, acc) ==
    LET both == (DOMAIN maps.minus_map) \cap (DOMAIN maps.plus_map)
        left == {maps.minus_map[f] : f \in (DOMAIN maps.minus_map) \ both}
                  \cup {maps.plus_map[f] : f \in (DOMAIN maps.plus_map) \ both}
    IN  [acc EXCEPT !.keep_map = KeepAll(lines, @, left),
                    !.exceed = @ \/ left # {}]

\* "for mi, ml, mlen in minus_list": used_plus after the greedy matching, each
\* '-' taking the earliest unused '+' of equal length.
RECURSIVE GreedyMatch(_, _, _, _)
GreedyMatch(minus_list, plus_list, n, used_plus) ==
    IF n > Len(minus_list) THEN used_plus
    ELSE
      LET mlen  == minus_list[n][2]
          cands == {k \in 1..Len(plus_list) : k \notin used_plus /\ plus_list[k][2] = mlen}
          next  == IF cands = {} THEN used_plus
                   ELSE used_plus \cup {CHOOSE k \in cands : \A c \in cands : k <= c}
      IN  GreedyMatch(minus_list, plus_list, n + 1, next)

\* The mutation of NonDataLoop that keeps the lines of a group only when the
\* group has both sides.
RECURSIVE NonDataLoop_paired(_, _, _, _, _)
NonDataLoop_paired(lines, maps, order, n, acc) ==
    IF n > Len(order) THEN acc
    ELSE
      LET norm       == order[n]
          minus_list == MapGet(maps.nd_minus, norm)
          plus_list  == MapGet(maps.nd_plus, norm)
          minus_idx  == {minus_list[k][1] : k \in 1..Len(minus_list)}
          used_plus  == GreedyMatch(minus_list, plus_list, 1, {})
          kept       ==
            IF minus_list # <<>> /\ plus_list # <<>>
            THEN minus_idx \cup {plus_list[k][1] : k \in (1..Len(plus_list)) \ used_plus}
            ELSE {}
      IN  NonDataLoop_paired(lines, maps, order, n + 1,
                             [acc EXCEPT !.keep_map = KeepAll(lines, @, kept)])

\* "for norm in set(nd_minus.keys()) | set(nd_plus.keys())", visited in `order`.
RECURSIVE NonDataLoop(_, _, _, _, _)
NonDataLoop(lines, maps, order, n, acc) ==
    IF n > Len(order) THEN acc
    ELSE
      LET norm       == order[n]
          minus_list == MapGet(maps.nd_minus, norm)
          plus_list  == MapGet(maps.nd_plus, norm)
          minus_idx  == {minus_list[k][1] : k \in 1..Len(minus_list)}
          used_plus  == GreedyMatch(minus_list, plus_list, 1, {})
          kept       ==
            IF minus_list # <<>> /\ plus_list # <<>>
            THEN minus_idx \cup {plus_list[k][1] : k \in (1..Len(plus_list)) \ used_plus}
            ELSE minus_idx \cup {plus_list[k][1] : k \in 1..Len(plus_list)}
      IN  NonDataLoop(lines, maps, order, n + 1,
                      [acc EXCEPT !.keep_map = KeepAll(lines, @, kept)])

\* The mutation of EmitChunk that walks keep_map instead of the chunk: the data
\* rows first, then the non-data rows.
EmitChunk_by_kind(lines, k, j, acc) ==
    LET idxs  == {x \in k..(j - 1) : x \notin acc.skip_idx /\ x \in DOMAIN acc.keep_map}
        data  == {x \in idxs : parse_gas_line(LineAt(lines, x)) # None}
        Sorted(S) == CHOOSE o \in Orders(S) : \A a, b \in DOMAIN o : a < b => o[a] < o[b]
    IN  Sorted(data) \o Sorted(idxs \ data)

\* "for idx, l in chunk": the indices appended to the output, in chunk order.
RECURSIVE EmitChunk(_, _, _, _)
EmitChunk(lines, k, j, acc) ==
    IF k >= j THEN <<>>
    ELSE IF k \in acc.skip_idx THEN EmitChunk(lines, k + 1, j, acc)
    ELSE IF k \in DOMAIN acc.keep_map THEN <<k>> \o EmitChunk(lines, k + 1, j, acc)
    ELSE EmitChunk(lines, k + 1, j, acc)


\* What one chunk yields: the index after it, the indices emitted and their
\* lines, its verdict, and the history of its comparisons and collapses.
ChunkResult(j, idxs, acc) ==
    [j |-> j, idxs |-> idxs,
     out |-> [n \in 1..Len(idxs) |-> acc.keep_map[idxs[n]]],
     exceed |-> acc.exceed, cmp |-> acc.cmp, coll |-> acc.coll]

\* The three passes over the maps of the chunk k..j-1, then "Emit in original order".
ChunkPasses(lines, k, j, maps, rel, tol, forder, norder) ==
    ChunkResult(j,
        EmitChunk(lines, k, j,
            NonDataLoop(lines, maps, norder, 1,
                SingletonLoops(lines, maps,
                    PairedLoop(lines, maps, forder, 1, EmptyAcc, rel, tol)))),
        NonDataLoop(lines, maps, norder, 1,
            SingletonLoops(lines, maps,
                PairedLoop(lines, maps, forder, 1, EmptyAcc, rel, tol))))

ChunkOf(lines, k, j, rel, tol, forder, norder) ==
    ChunkPasses(lines, k, j, BuildMaps(lines, k, j, EmptyMaps), rel, tol, forder, norder)

\* The body of "if _is_minus(line) or _is_plus(line):" for the chunk starting at
\* k, its loops over sets visited in the orders forder and norder.
ProcessChunk(lines, k, rel, tol, forder, norder) ==
    ChunkOf(lines, k, ChunkEnd(lines, k), rel, tol, forder, norder)

PairedNames(lines, k) ==
    LET maps == BuildMaps(lines, k, ChunkEnd(lines, k), EmptyMaps)
    IN  (DOMAIN maps.minus_map) \cap (DOMAIN maps.plus_map)

NonDataNorms(lines, k) ==
    LET maps == BuildMaps(lines, k, ChunkEnd(lines, k), EmptyMaps)
    IN  (DOMAIN maps.nd_minus) \cup (DOMAIN maps.nd_plus)

\* filter_colored_diff_lines as a function: <<filtered_lines, has_exceed>> of
\* the scan from index k on, given what was produced before k.
RECURSIVE FilterFrom(_, _, _, _, _, _)
AfterChunk(lines, r, out, exc, rel, tol) ==
    FilterFrom(lines, r.j, out \o r.out, exc \/ r.exceed, rel, tol)

FilterFrom(lines, k, out, exc, rel, tol) ==
    IF k > Len(lines) THEN <<out, exc>>
    ELSE IF Branch(LineAt(lines, k)) = "chunk"
    THEN AfterChunk(lines,
                    ProcessChunk(lines, k, rel, tol, SomeOrder(PairedNames(lines, k)),
                                 SomeOrder(NonDataNorms(lines, k))),
                    out, exc, rel, tol)
    ELSE FilterFrom(lines, k + 1, Append(out, LineAt(lines, k)), exc, rel, tol)

filter_colored_diff_lines(lines, rel, tol) == FilterFrom(lines, 1, <<>>, FALSE, rel, tol)

----------------------------------------------------------------------------
(* The inputs of a run                                                     *)

\* The longest input, in lines.
MaxLen == 3

\* "| name | digits |"
Row(name, digits) == <<"|", " ", name, " ", "|", " ">> \o digits \o <<" ", "|">>

RedMinus_f70  == <<"R", "-">> \o Row("f", <<"7", "0">>) \o <<"Z">>
Minus_f80     == <<"-">> \o Row("f", <<"8", "0">>)
GreenPlus_f80 == <<"G", "+">> \o Row("f", <<"8", "0">>) \o <<"Z">>
IndentPlus_f80 == <<" ", " ", "+">> \o Row("f", <<"8", "0">>)
Plus_g80      == <<"+">> \o Row("g", <<"8", "0">>)
Context_f70   == <<" ">> \o Row("f", <<"7", "0">>)
Hunk          == <<"@", "@", " ">>
Minus_rule    == <<"-", "|", "-", "-", "|">>
Plus_rule     == <<"+", "|", "-", "-", "|">>

Pool == {RedMinus_f70, Minus_f80, GreenPlus_f80, IndentPlus_f80, Plus_g80,
         Context_f70, Hunk, Minus_rule, Plus_rule}

\* <<rel_tol, abs_tol>>: none, 1/8 relative only, 10 gas absolute only.
Tolerances == {<< <<0, 1>>, <<0, 1>> >>, << <<1, 8>>, <<0, 1>> >>, << <<0, 1>>, <<10, 1>> >>}

Inputs == UNION {[1..n -> Pool] : n \in 0..MaxLen}

----------------------------------------------------------------------------
(* main and the scan loop, one action per step                             *)

Init ==
    /\ raw_lines \in Inputs
    /\ \E t \in Tolerances : rel_tol = t[1] /\ abs_tol = t[2]
    /\ pc = "main"
    /\ diff_lines = <<>>
    /\ i = 1
    /\ filtered_lines = <<>>
    /\ has_exceed = FALSE
    /\ emitted = <<>>
    /\ collapsed = {}
    /\ compared = {}
    /\ parse_calls = {}
    /\ stdout = <<>>
    /\ exit_status = -1
    /\ tables = NotRunning
    /\ imp = NotRunning
    /\ erc20 = NotRunning
    /\ anvil = NotRunning

\* main, no input: "if not diff_lines: sys.exit(0)".
MainNoInput ==
    /\ pc = "main"
    /\ raw_lines = <<>>
    /\ diff_lines' = <<>>
    /\ exit_status' = 0
    /\ pc' = "exit"
    /\ UNCHANGED other_programs
    /\ UNCHANGED <<raw_lines, parse_calls, rel_tol, abs_tol, i, filtered_lines, has_exceed,
                   emitted, collapsed, compared, stdout>>

\* main, some input: rstrip every line and enter the filter.
MainCallFilter ==
    /\ pc = "main"
    /\ raw_lines # <<>>
    /\ diff_lines' = [k \in 1..Len(raw_lines) |-> rstrip(raw_lines[k])]
    /\ pc' = "loop"
    /\ UNCHANGED other_programs
    /\ UNCHANGED <<raw_lines, parse_calls, rel_tol, abs_tol, i, filtered_lines, has_exceed,
                   emitted, collapsed, compared, stdout, exit_status>>

\* The mutation of KeepContext that advances without copying the line.
KeepContext_lost ==
    /\ pc = "loop"
    /\ i <= Len(diff_lines)
    /\ Branch(LineAt(diff_lines, i)) = "context"
    /\ i' = i + 1
    /\ UNCHANGED other_programs
    /\ UNCHANGED <<raw_lines, parse_calls, rel_tol, abs_tol, pc, diff_lines, filtered_lines, has_exceed,
                   emitted, collapsed, compared, stdout, exit_status>>

\* "if _is_context_line(line)": copy the line.
KeepContext ==
    /\ pc = "loop"
    /\ i <= Len(diff_lines)
    /\ Branch(LineAt(diff_lines, i)) = "context"
    /\ filtered_lines' = Append(filtered_lines, LineAt(diff_lines, i))
    /\ emitted' = Append(emitted, i)
    /\ i' = i + 1
    /\ UNCHANGED other_programs
    /\ UNCHANGED <<raw_lines, parse_calls, rel_tol, abs_tol, pc, diff_lines, has_exceed,
                   collapsed, compared, stdout, exit_status>>

\* math.isclose raises ValueError("tolerances must be non-negative") before it
\* looks at the values.
NegativeTolerance(rel, tol) == rel[1] < 0 \/ tol[1] < 0

\* The chunk starting at k makes a call of math.isclose that raises: it has a
\* function name on both sides, so the paired loop calls compare_gas_lines.
ChunkRaises(lines, k, rel, tol) ==
    NegativeTolerance(rel, tol) /\ PairedNames(lines, k) # {}

\* The assignments of the chunk branch, r being what the chunk yields.
AppendChunk(r) ==
    /\ filtered_lines' = filtered_lines \o r.out
    /\ emitted' = emitted \o r.idxs
    /\ has_exceed' = (has_exceed \/ r.exceed)
    /\ collapsed' = collapsed \cup r.coll
    /\ compared' = compared \cup r.cmp
    /\ i' = r.j

\* "if _is_minus(line) or _is_plus(line)": collect the chunk, pair, emit.
FilterChunk ==
    /\ pc = "loop"
    /\ i <= Len(diff_lines)
    /\ Branch(LineAt(diff_lines, i)) = "chunk"
    /\ ~ChunkRaises(diff_lines, i, rel_tol, abs_tol)
    /\ \E forder \in Orders(PairedNames(diff_lines, i)),
          norder \in Orders(NonDataNorms(diff_lines, i)) :
         AppendChunk(ProcessChunk(diff_lines, i, rel_tol, abs_tol, forder, norder))
    /\ UNCHANGED other_programs
    /\ UNCHANGED <<raw_lines, parse_calls, rel_tol, abs_tol, pc, diff_lines, stdout, exit_status>>

\* The ValueError of math.isclose leaves compare_gas_lines, the filter and main
\* uncaught: the interpreter prints a traceback and exits with status 1, the
\* lines filtered so far are not printed.
FilterChunkRaises ==
    /\ pc = "loop"
    /\ i <= Len(diff_lines)
    /\ Branch(LineAt(diff_lines, i)) = "chunk"
    /\ ChunkRaises(diff_lines, i, rel_tol, abs_tol)
    /\ pc' = "raised"
    /\ exit_status' = 1
    /\ UNCHANGED other_programs
    /\ UNCHANGED <<raw_lines, parse_calls, rel_tol, abs_tol, diff_lines, i, filtered_lines,
                   has_exceed, emitted, collapsed, compared, stdout>>

\* "Misc lines as-is".
KeepMisc ==
    /\ pc = "loop"
    /\ i <= Len(diff_lines)
    /\ Branch(LineAt(diff_lines, i)) = "misc"
    /\ filtered_lines' = Append(filtered_lines, LineAt(diff_lines, i))
    /\ emitted' = Append(emitted, i)
    /\ i' = i + 1
    /\ UNCHANGED other_programs
    /\ UNCHANGED <<raw_lines, parse_calls, rel_tol, abs_tol, pc, diff_lines, has_exceed,
                   collapsed, compared, stdout, exit_status>>

\* The filter returns; main prints the lines and exits with the verdict.
MainPrintExit ==
    /\ pc = "loop"
    /\ i > Len(diff_lines)
    /\ stdout' = filtered_lines
    /\ exit_status' = IF has_exceed THEN 1 ELSE 0
    /\ pc' = "exit"
    /\ UNCHANGED other_programs
    /\ UNCHANGED <<raw_lines, parse_calls, rel_tol, abs_tol, diff_lines, i, filtered_lines, has_exceed,
                   emitted, collapsed, compared>>

Next ==
    \/ MainNoInput
    \/ MainCallFilter
    \/ KeepContext
    \/ FilterChunk
    \/ KeepMisc
    \/ MainPrintExit

Spec == Init /\ [][Next]_vars

----------------------------------------------------------------------------
(* Runs over other inputs: the same program, started on inputs chosen for  *)
(* one function of it                                                      *)

\* The state main starts its work in, whatever was read and asked for.
Fresh ==
    /\ diff_lines = <<>>
    /\ i = 1
    /\ filtered_lines = <<>>
    /\ has_exceed = FALSE
    /\ emitted = <<>>
    /\ collapsed = {}
    /\ compared = {}
    /\ parse_calls = {}
    /\ stdout = <<>>
    /\ exit_status = -1
    /\ tables = NotRunning
    /\ imp = NotRunning
    /\ erc20 = NotRunning
    /\ anvil = NotRunning

\* The longest line of a one-line input, in characters.
MaxChars == 4

\* The characters of a one-line input: the diff markers, the table bar, three
\* SGR codes, a blank and a letter.
LineChars == {" ", "-", "+", "|", "R", "G", "B", "x"}

OneLine == UNION {[1..n -> LineChars] : n \in 0..MaxChars}

\* No input, or one line: every text of up to MaxChars characters.
LineInit ==
    /\ raw_lines \in {<<>>} \cup {<<l>> : l \in OneLine}
    /\ rel_tol = <<0, 1>>
    /\ abs_tol = <<0, 1>>
    /\ pc = "main"
    /\ Fresh

LineSpec == LineInit /\ [][Next]_vars

----------------------------------------------------------------------------
(* compare_gas_lines on its own: two rows of one name, compared both ways  *)

\* The gas values of the two rows, as the digits written in them.
GasDigits == {<<"0">>, <<"5">>, <<"6">>, <<"8">>, <<"1", "0">>, <<"1", "6">>}

\* --rel-tolerance: 0, 0.25, 1.
RelTolerances == {<<0, 1>>, <<1, 4>>, <<1, 1>>}

\* --abs-tolerance: 0, 2, 10.
AbsTolerances == {<<0, 1>>, <<2, 1>>, <<10, 1>>}

CompareInit ==
    /\ \E a, b \in GasDigits :
          raw_lines = << <<"-">> \o Row("f", a), <<"+">> \o Row("f", b) >>
    /\ rel_tol \in RelTolerances
    /\ abs_tol \in AbsTolerances
    /\ pc = "compare"
    /\ Fresh

\* compare_gas_lines(old_line, new_line, rel_tol, abs_tol), recorded.
CompareCall(old_line, new_line) ==
    compared' = compared \cup
        {[old |-> old_line, new |-> new_line,
          result |-> compare_gas_lines(old_line, new_line, rel_tol, abs_tol)]}

\* The first row as the old line, the second as the new one.
CompareForward ==
    /\ pc = "compare"
    /\ CompareCall(raw_lines[1], raw_lines[2])
    /\ pc' = "swapped"
    /\ UNCHANGED other_programs
    /\ UNCHANGED <<raw_lines, parse_calls, rel_tol, abs_tol, diff_lines, i, filtered_lines,
                   has_exceed, emitted, collapsed, stdout, exit_status>>

\* The same two rows the other way round.
CompareBackward ==
    /\ pc = "swapped"
    /\ CompareCall(raw_lines[2], raw_lines[1])
    /\ pc' = "exit"
    /\ UNCHANGED other_programs
    /\ UNCHANGED <<raw_lines, parse_calls, rel_tol, abs_tol, diff_lines, i, filtered_lines,
                   has_exceed, emitted, collapsed, stdout, exit_status>>

CompareNext == CompareForward \/ CompareBackward

CompareSpec == CompareInit /\ [][CompareNext]_vars

----------------------------------------------------------------------------
(* The program on non-data rows: table rules, plain, indented and coloured *)

\* The longest input of rules, in lines.
MaxRules == 4

\* "- |--|" and "+ |--|": the rule one character further in.
MinusWide_rule == <<"-", " ", "|", "-", "-", "|">>
PlusWide_rule  == <<"+", " ", "|", "-", "-", "|">>

\* The removed rule as git colours it.
RedMinus_rule  == <<"R", "-", "|", "-", "-", "|", "Z">>

Context_rule   == <<" ", "|", "-", "-", "|">>

RulePool == {Minus_rule, Plus_rule, MinusWide_rule, PlusWide_rule, RedMinus_rule,
             Context_rule, Hunk}

RuleInit ==
    /\ raw_lines \in UNION {[1..n -> RulePool] : n \in 0..MaxRules}
    /\ rel_tol = <<0, 1>>
    /\ abs_tol = <<0, 1>>
    /\ pc = "main"
    /\ Fresh

NonDataSpec == RuleInit /\ [][Next]_vars

----------------------------------------------------------------------------
(* The program on rows of one name spread over several chunks              *)

\* The longest input of such rows, in lines.
MaxSpread == 4

SpreadPool == {RedMinus_f70, Minus_f80, GreenPlus_f80, Context_f70, Hunk}

\* <<rel_tol, abs_tol>>: none, 10 gas absolute.
SpreadTolerances == {<< <<0, 1>>, <<0, 1>> >>, << <<0, 1>>, <<10, 1>> >>}

SpreadInit ==
    /\ raw_lines \in UNION {[1..n -> SpreadPool] : n \in 0..MaxSpread}
    /\ \E t \in SpreadTolerances : rel_tol = t[1] /\ abs_tol = t[2]
    /\ pc = "main"
    /\ Fresh

ChunkSpec == SpreadInit /\ [][Next]_vars

----------------------------------------------------------------------------
(* parse_gas_line on its own: a table row, bare and behind a diff prefix   *)

\* The longest prefix put before a row, in characters.
MaxDeco == 3

\* Row texts "| name | number |" in several spacings and number formats.
RowTexts ==
    {Row("f", <<"8", "0">>),
     <<"|", "f", "|", "8", "0", "|">>,
     <<"|", "\t", "a", " ", "b", " ", " ", "|", " ", "1", ".", "5", " ", "|">>,
     <<"|", " ", "+", "f", " ", "|", " ", "1", "e", "2", " ", "|">>,
     Row("f", <<"2", "e", "-", "1">>) \o <<"Z">>}

\* What a diff puts before a row: SGR codes, blanks, a marker.
DecoChars == {" ", "\t", "R", "G", "B", "Z", "+", "-"}

\* Any mix of them with at most one marker.
Decorations ==
    {d \in UNION {[1..n -> DecoChars] : n \in 0..MaxDeco} :
        Cardinality({k \in DOMAIN d : d[k] \in {"+", "-"}}) <= 1}

ParseInit ==
    /\ \E text \in RowTexts, d \in Decorations : raw_lines = <<text, d \o text>>
    /\ rel_tol = <<0, 1>>
    /\ abs_tol = <<0, 1>>
    /\ pc = "parse"
    /\ Fresh

\* parse_gas_line(line), recorded.
ParseCall(line) ==
    parse_calls' = parse_calls \cup {[line |-> line, result |-> parse_gas_line(line)]}

\* The row text alone.
ParseBare ==
    /\ pc = "parse"
    /\ ParseCall(raw_lines[1])
    /\ pc' = "decorated"
    /\ UNCHANGED other_programs
    /\ UNCHANGED <<raw_lines, rel_tol, abs_tol, diff_lines, i, filtered_lines, has_exceed,
                   emitted, collapsed, compared, stdout, exit_status>>

\* The row text behind its prefix.
ParseDecorated ==
    /\ pc = "decorated"
    /\ ParseCall(raw_lines[2])
    /\ pc' = "exit"
    /\ UNCHANGED other_programs
    /\ UNCHANGED <<raw_lines, rel_tol, abs_tol, diff_lines, i, filtered_lines, has_exceed,
                   emitted, collapsed, compared, stdout, exit_status>>

ParseNext == ParseBare \/ ParseDecorated

ParseSpec == ParseInit /\ [][ParseNext]_vars

----------------------------------------------------------------------------
(* The program under every tolerance the argument parser accepts           *)

\* The longest input of these runs, in lines.
MaxArgLen == 3

\* type=float accepts any float: --rel-tolerance 0, 0.125, -0.125.
ParsedRelTolerances == {<<0, 1>>, <<1, 8>>, <<-1, 8>>}

\* --abs-tolerance 0, 10, -10.
ParsedAbsTolerances == {<<0, 1>>, <<10, 1>>, <<-10, 1>>}

ArgInit ==
    /\ raw_lines \in UNION {[1..n -> SpreadPool] : n \in 0..MaxArgLen}
    /\ rel_tol \in ParsedRelTolerances
    /\ abs_tol \in ParsedAbsTolerances
    /\ pc = "main"
    /\ Fresh

ArgNext == Next \/ FilterChunkRaises

ArgSpec == ArgInit /\ [][ArgNext]_vars


----------------------------------------------------------------------------
(* Vocabulary of the properties: the input seen as rows, sides and chunks  *)

Done == pc = "exit"

InChunk(k) == _is_minus(diff_lines[k]) \/ _is_plus(diff_lines[k])

\* The side the filter files a chunk line under: '-' is asked first.
Removed(k) == _is_minus(diff_lines[k])

Added(k) == ~_is_minus(diff_lines[k]) /\ _is_plus(diff_lines[k])

SameSide(a, b) == Removed(a) <=> Removed(b)

\* a and b lie in one contiguous run of removed/added lines.
SameChunk(a, b) ==
    \A m \in (IF a <= b THEN a ELSE b)..(IF a <= b THEN b ELSE a) : InChunk(m)

DataRow(k) == InChunk(k) /\ parse_gas_line(diff_lines[k]) # None

NameOf(k) == parse_gas_line(diff_lines[k])[1]

GasOf(k) == parse_gas_line(diff_lines[k])[2]

Rows == {k \in 1..Len(diff_lines) : DataRow(k)}

\* A removed row and an added row of one chunk with the same function name.
RowPair(a, b) ==
    /\ a \in Rows /\ b \in Rows
    /\ Removed(a) /\ Added(b)
    /\ SameChunk(a, b)
    /\ NameOf(a) = NameOf(b)

\* Row a has no row of its name on the other side of its chunk.
OneSided(a) ==
    /\ a \in Rows
    /\ ~\E b \in Rows : SameChunk(a, b) /\ NameOf(a) = NameOf(b) /\ ~SameSide(a, b)

\* Row a is the last row of its name on its side of its chunk: the one the
\* pairing retains for the name.
Retained(a) ==
    /\ a \in Rows
    /\ ~\E c \in Rows : c > a /\ SameChunk(a, c) /\ NameOf(a) = NameOf(c) /\ SameSide(a, c)

\* The output positions holding the line emitted for input index k.
OutPos(k) == {p \in 1..Len(emitted) : emitted[p] = k}

RMax(a, b) == IF RLe(a, b) THEN b ELSE a

\* The OR-tolerance law on gas values old and new, for the tolerances of the run:
\* |new-old| <= abs_tol, or |new-old| <= rel_tol * max(|old|, |new|).
WithinLaw(old, new) ==
    \/ RLe(RAbsDiff(new, old), abs_tol)
    \/ RLe(RAbsDiff(new, old),
           RAbsMul(rel_tol, RMax(<<Abs(old[1]), old[2]>>, <<Abs(new[1]), new[2]>>)))

\* Text `out` is text `pl` with at most its '+' characters turned into spaces.
DerivedFrom(out, pl) ==
    /\ Len(out) = Len(pl)
    /\ \A n \in 1..Len(pl) : out[n] = pl[n] \/ (pl[n] = "+" /\ out[n] = " ")

----------------------------------------------------------------------------
(* The claims                                                              *)

\* C1: every call of compare_gas_lines on two data rows with the same function
\* name returns False (within tolerance) exactly when |new-old| <= abs_tol or
\* |new-old| <= rel_tol * max(|old|, |new|), and True otherwise; both bounds are
\* inclusive.
C1_OrToleranceLaw ==
    \A c \in compared :
        (/\ parse_gas_line(c.old) # None
         /\ parse_gas_line(c.new) # None
         /\ parse_gas_line(c.old)[1] = parse_gas_line(c.new)[1])
        => (c.result = ~WithinLaw(parse_gas_line(c.old)[2], parse_gas_line(c.new)[2]))

\* A comparison whose difference equals abs_tol exactly, with no relative
\* tolerance, was made and came out within tolerance.
C1_Witness ==
    \E c \in compared :
        /\ rel_tol[1] = 0
        /\ abs_tol[1] > 0
        /\ REq(RAbsDiff(parse_gas_line(c.old)[2], parse_gas_line(c.new)[2]), abs_tol)
        /\ c.result = FALSE

\* Some chunk holds a name whose retained removed/added pair exceeds tolerance,
\* or a data row whose name is on one side only.
ExceedCause ==
    \E a \in Rows :
        \/ OneSided(a)
        \/ \E b \in Rows :
              /\ RowPair(a, b) /\ Retained(a) /\ Retained(b)
              /\ ~WithinLaw(GasOf(a), GasOf(b))

\* C2: at exit, has_exceed is true exactly when some chunk contains a function
\* name present on both sides whose pair (the rows the pairing retains for the
\* name) exceeds tolerance, or a data row whose name is on one side only; the
\* exit status is 1 exactly when has_exceed is true and 0 otherwise, and the
\* filtered lines are printed in both cases.
C2_VerdictIffCause ==
    Done =>
        /\ has_exceed <=> ExceedCause
        /\ exit_status = (IF has_exceed THEN 1 ELSE 0)
        /\ stdout = filtered_lines

\* A run ended with status 1 on an input whose only cause is a pair that
\* exceeds tolerance, and printed its lines.
C2_Witness ==
    /\ Done
    /\ exit_status = 1
    /\ stdout # <<>>
    /\ \A a \in Rows : ~OneSided(a)
    /\ \E a, b \in Rows : RowPair(a, b) /\ ~WithinLaw(GasOf(a), GasOf(b))

\* C3: a removed or added data row whose function name does not occur on the
\* other side of its chunk is emitted unchanged at its original position and
\* forces the verdict to exceeded, whatever the tolerances.
C3_OneSidedRowKept ==
    Done =>
        \A a \in Rows :
            OneSided(a) =>
                /\ has_exceed
                /\ \E p \in OutPos(a) : filtered_lines[p] = diff_lines[a]

\* C4: for every removed/added pair of data rows with one function name in one
\* chunk that is within tolerance, the output holds exactly one line for the
\* pair, at the removed line's position, derived from the added line; nothing is
\* emitted at the added line's position; the pair does not set the verdict.
C4_WithinPairCollapsed ==
    Done =>
        \A a, b \in Rows :
            (RowPair(a, b) /\ WithinLaw(GasOf(a), GasOf(b))) =>
                /\ Cardinality(OutPos(a)) = 1
                /\ \A p \in OutPos(a) : DerivedFrom(filtered_lines[p], diff_lines[b])
                /\ OutPos(b) = {}
                /\ (Rows = {a, b} => ~has_exceed)

\* C5: every collapsed line emitted for a within-tolerance pair is context-style:
\* it is classified neither as added nor as removed.
C5_CollapsedIsNeutral ==
    \A p \in 1..Len(emitted) :
        emitted[p] \in collapsed =>
            /\ ~_is_plus(filtered_lines[p])
            /\ ~_is_minus(filtered_lines[p])

\* C6: every data row of a chunk is emitted (as itself or as the collapsed line
\* at its position) unless it is the added line of a within-tolerance pair.
C6_EveryRowAccounted ==
    Done =>
        \A k \in Rows :
            \/ OutPos(k) # {}
            \/ \E a \in Rows : RowPair(a, k) /\ WithinLaw(GasOf(a), GasOf(k))

\* C7: for every removed/added pair of data rows with one function name in one
\* chunk that exceeds tolerance, both lines are emitted, each at its own position
\* with its text unchanged, and the verdict is exceeded.
C7_ExceedingPairKept ==
    Done =>
        \A a, b \in Rows :
            (RowPair(a, b) /\ ~WithinLaw(GasOf(a), GasOf(b))) =>
                /\ has_exceed
                /\ \E p \in OutPos(a) : filtered_lines[p] = diff_lines[a]
                /\ \E p \in OutPos(b) : filtered_lines[p] = diff_lines[b]

NoChangeLine ==
    \A k \in 1..Len(raw_lines) : ~_is_minus(raw_lines[k]) /\ ~_is_plus(raw_lines[k])

\* C8: if no input line is classified as removed or added (the empty input
\* included), the lines printed are the input lines, each with only its trailing
\* whitespace removed, in the same order and number, and the exit status is 0.
C8_PassThrough ==
    (Done /\ NoChangeLine) =>
        /\ stdout = [k \in 1..Len(raw_lines) |-> rstrip(raw_lines[k])]
        /\ has_exceed = FALSE
        /\ exit_status = 0

\* A run over a context line and another line that lost trailing whitespace,
\* with no removed or added line, has ended.
C8_Witness ==
    /\ Done
    /\ NoChangeLine
    /\ \E k \in 1..Len(raw_lines) : _is_context_line(raw_lines[k])
    /\ \E k \in 1..Len(raw_lines) : rstrip(raw_lines[k]) # raw_lines[k]

\* C9: the input indices the output lines were emitted for (a collapsed line
\* counting at the index of its removed line) are strictly increasing over the
\* whole output, one index per output line.
C9_OrderPreserved ==
    /\ Len(emitted) = Len(filtered_lines)
    /\ \A p, q \in 1..Len(emitted) : p < q => emitted[p] < emitted[q]
    /\ \A p \in 1..Len(emitted) : emitted[p] \in collapsed => Removed(emitted[p])

\* A run has ended whose output holds a pass-through line, then a chunk whose
\* added line came first and was collapsed onto the removed line after it.
C9_Witness ==
    /\ Done
    /\ Len(emitted) >= 2
    /\ \E p \in 1..Len(emitted) : ~InChunk(emitted[p])
    /\ \E a, b \in Rows : RowPair(a, b) /\ b < a /\ a \in collapsed

\* C10: whenever a run ends with the verdict not exceeded, filtering its output
\* again yields the same lines and again the verdict not exceeded.
C10_Idempotent ==
    (Done /\ ~has_exceed) =>
        filter_colored_diff_lines(filtered_lines, rel_tol, abs_tol) = <<filtered_lines, FALSE>>

\* The three classifiers of a line, as the filter asks them.
IsContext(l) == _is_context_line(l)

\* C11: for every line at most one of the predicates context (_is_context_line),
\* removed (_is_minus) and added (_is_plus) holds, and the scan takes a line as
\* 'other' exactly when none holds; no line is both removed and added.
C11_ClassesDisjoint ==
    \A k \in 1..Len(diff_lines) :
        /\ ~(IsContext(diff_lines[k]) /\ _is_minus(diff_lines[k]))
        /\ ~(IsContext(diff_lines[k]) /\ _is_plus(diff_lines[k]))
        /\ ~(_is_minus(diff_lines[k]) /\ _is_plus(diff_lines[k]))
        /\ (Branch(diff_lines[k]) = "misc") <=>
              ~(IsContext(diff_lines[k]) \/ _is_minus(diff_lines[k]) \/ _is_plus(diff_lines[k]))

\* The text starts with the marker, once and not three times.
StartsWithMarker(text, c) == startswith(text, <<c>>) /\ ~startswith(text, <<c, c, c>>)

\* C12: every line whose ANSI-stripped text starts with '-' but not with '---'
\* is classified as removed, and every line whose ANSI-stripped text starts
\* with '+' but not with '+++' is classified as added, whatever SGR codes
\* precede the marker.
C12_MarkerDecidesSide ==
    \A k \in 1..Len(diff_lines) :
        /\ StartsWithMarker(strip_ansi_codes(diff_lines[k]), "-") => _is_minus(diff_lines[k])
        /\ StartsWithMarker(strip_ansi_codes(diff_lines[k]), "+") => _is_plus(diff_lines[k])

\* The two calls of a run of CompareSpec are one pair of rows taken both ways.
Swapped(c, d) == c.old = d.new /\ c.new = d.old

ValueOf(line) == parse_gas_line(line)[2]

\* C13: comparing (old=a, new=b) and comparing (old=b, new=a) give the same
\* exceeds/within result, for all gas values (zero included) and all
\* non-negative tolerances.
C13_Symmetric ==
    \A c, d \in compared : Swapped(c, d) => c.result = d.result

\* Both ways were compared and came out within tolerance on two values whose
\* difference is within rel_tol of the larger one only.
C13_Witness ==
    \E c, d \in compared :
        /\ Swapped(c, d)
        /\ c.result = FALSE /\ d.result = FALSE
        /\ ~RLe(RAbsDiff(ValueOf(c.old), ValueOf(c.new)), abs_tol)
        /\ ~RLe(RAbsDiff(ValueOf(c.old), ValueOf(c.new)), RAbsMul(rel_tol, ValueOf(c.old)))

ZeroBaseline(c) == ValueOf(c.old)[1] = 0 /\ ValueOf(c.new)[1] # 0

\* C14: a pair whose old gas value is 0 and whose new gas value is not 0 is
\* always classified as exceeding tolerance, for every rel_tol and abs_tol.
C14_ZeroAlwaysExceeds ==
    \A c \in compared : ZeroBaseline(c) => c.result = TRUE

\* C14 as amended: a pair whose old gas value is 0 and whose new gas value is
\* not 0 exceeds tolerance exactly when the new value is greater than abs_tol
\* and rel_tol is less than 1.
C14_ZeroExceedsBeyondAbs ==
    \A c \in compared :
        ZeroBaseline(c) =>
            (c.result <=> (~RLe(ValueOf(c.new), abs_tol) /\ ~RLe(<<1, 1>>, rel_tol)))

\* A zero old value was compared with a new value inside abs_tol, under a
\* relative tolerance below 1, and came out within tolerance.
C14_Witness ==
    \E c \in compared :
        /\ ZeroBaseline(c)
        /\ ~RLe(<<1, 1>>, rel_tol)
        /\ RLe(ValueOf(c.new), abs_tol)
        /\ c.result = FALSE

\* The tolerance law with the relative change measured against the old value:
\* |new-old| / old <= rel_tol, or |new-old| <= abs_tol.
WithinOld(old, new) ==
    \/ RLe(RAbsDiff(new, old), abs_tol)
    \/ RLe(RAbsDiff(new, old), RAbsMul(rel_tol, old))

\* Rows a and b are a removed/added pair of one name and the only data rows of
\* the input, the old value not being 0.
LonePair(a, b) == Rows = {a, b} /\ RowPair(a, b) /\ GasOf(a)[1] # 0

NonData(k) == InChunk(k) /\ parse_gas_line(diff_lines[k]) = None

NonDataRows == {k \in 1..Len(diff_lines) : NonData(k)}

\* The raw length of a line, its ANSI codes counted.
RawLen(k) == Len(diff_lines[k])

\* Two non-data lines of one chunk with the same normalized content.
SameGroup(a, b) == SameChunk(a, b) /\ NormOf(diff_lines[a]) = NormOf(diff_lines[b])

\* The lines of k's group and raw length: the removed ones, and the added ones
\* that come before k.
RemovedLike(k) ==
    {a \in NonDataRows : Removed(a) /\ SameGroup(a, k) /\ RawLen(a) = RawLen(k)}

AddedLikeBefore(k) ==
    {b \in NonDataRows : Added(b) /\ b < k /\ SameGroup(b, k) /\ RawLen(b) = RawLen(k)}

EmittedAsIs(k) == \E p \in OutPos(k) : filtered_lines[p] = diff_lines[k]

\* C16: within a chunk and a normalized-content group, the removed non-data
\* lines taken in scan order are matched one-to-one to the earliest unmatched
\* added lines of equal length: every removed non-data line is emitted, an added
\* line is dropped exactly when fewer added lines of its group and length come
\* before it than the group has removed lines of that length, and every other
\* added line is emitted.
C16_GreedyOneToOne ==
    Done =>
        \A k \in NonDataRows :
            IF Removed(k) THEN EmittedAsIs(k)
            ELSE IF Cardinality(AddedLikeBefore(k)) < Cardinality(RemovedLike(k))
                 THEN OutPos(k) = {}
                 ELSE EmittedAsIs(k)

\* C17: an added non-data line is dropped only if its chunk holds a removed
\* non-data line with identical normalized content and identical raw,
\* ANSI-inclusive length; when the raw lengths differ both lines are emitted.
C17_DropNeedsEqualRawLength ==
    Done =>
        \A k \in NonDataRows :
            (Added(k) /\ OutPos(k) = {}) => RemovedLike(k) # {}

\* C18: rows that do not parse as gas rows never affect the verdict and are
\* never lost: without data rows the verdict stays not exceeded, and every
\* non-data line is emitted unchanged except an added line dropped against a
\* removed non-data line of the same normalized content in its chunk.
C18_NonDataKeptAndQuiet ==
    Done =>
        /\ (Rows = {} => (~has_exceed /\ exit_status = 0))
        /\ \A k \in NonDataRows :
              \/ EmittedAsIs(k)
              \/ /\ Added(k)
                 /\ \E a \in NonDataRows : Removed(a) /\ SameGroup(a, k) /\ EmittedAsIs(a)

\* A run without data rows has ended in which one added non-data line was
\* dropped against a removed one and another added non-data line was emitted.
C18_Witness ==
    /\ Done
    /\ Rows = {}
    /\ \E k \in NonDataRows : Added(k) /\ OutPos(k) = {}
    /\ \E k \in NonDataRows : Added(k) /\ EmittedAsIs(k)

\* A removed row a and an added row b of one function name that lie in
\* different chunks, neither with a row of that name on the other side of its
\* own chunk.
AcrossChunks(a, b) ==
    /\ a \in Rows /\ b \in Rows
    /\ Removed(a) /\ Added(b)
    /\ NameOf(a) = NameOf(b)
    /\ ~SameChunk(a, b)
    /\ OneSided(a) /\ OneSided(b)

\* C19: a removed data row and an added data row with the same function name
\* in different chunks are never paired or collapsed: each is treated as a
\* one-sided row, both are emitted and the verdict is exceeded, even when their
\* gas values are equal.
C19_ChunksIndependent ==
    Done =>
        \A a, b \in Rows :
            AcrossChunks(a, b) =>
                /\ EmittedAsIs(a) /\ EmittedAsIs(b)
                /\ a \notin collapsed /\ b \notin collapsed
                /\ has_exceed

\* C20: for every row text of the form '| name | number |', parse_gas_line
\* returns a (function_name, gas_value) for the text alone and the same one for
\* the text preceded by any mix of ANSI colour codes, whitespace and one '+' or
\* '-' marker.
C20_ParseIgnoresDecoration ==
    \A c, d \in parse_calls : c.result # None /\ c.result = d.result

\* A row was parsed alone and behind a red '-' marker followed by a blank, and
\* both calls returned the same name and value.
C20_Witness ==
    \E c, d \in parse_calls :
        /\ d.line = <<"R", "-", " ">> \o c.line
        /\ c.result # None
        /\ c.result = d.result

\* C21: once argument parsing has succeeded the run never aborts with an
\* exception; it ends with exit status 0 or 1 after printing the filtered
\* lines, and a negative tolerance is rejected before any input line is
\* processed.
C21_NeverAborts ==
    /\ pc # "raised"
    /\ Done => (exit_status \in {0, 1} /\ stdout = filtered_lines)
    /\ NegativeTolerance(rel_tol, abs_tol) => (diff_lines = <<>> /\ filtered_lines = <<>>)

\* ---------------------------------------------------------------------------
\* extract-coverage.py: toNamedDataFrame.  A line of the coverage table is a
\* sequence of tokens: "|", " " and the words between them.
\* ---------------------------------------------------------------------------

\* The lines a table is made of: the header, a border, a row under script/
\* ending in .s.sol and one that does not, the same under src/, and Total.
TableLines ==
    {<<"|", " ", "File", " ", "|", " ", "% Lines", " ", "|">>,
     <<"|", "-", "-", "+", "-", "-", "|">>,
     <<"|", " ", "script/", "Example", ".s", ".sol", " ", "|", " ", "0%", " ", "(0/8)", " ", "|">>,
     <<"|", " ", "script/", "Deployment", ".sol", " ", "|", " ", "87%", " ", "(118/136)", " ", "|">>,
     <<"|", " ", "src/", "BaoOwnable", ".sol", " ", "|", " ", "100%", " ", "(27/27)", " ", "|">>,
     <<"|", " ", "src/", "Setup", ".s", ".sol", " ", "|", " ", "0%", " ", "(0/4)", " ", "|">>,
     <<"|", " ", "Total", " ", "|", " ", "80%", " ", "(1722/2151)", " ", "|">>}

\* The longest table given to toNamedDataFrame.
MaxTable == 3

\* The number of blanks at the front of s.
RECURSIVE SpaceRun(_)
SpaceRun(s) ==
    IF s # <<>> /\ Head(s) = " " THEN 1 + SpaceRun(Tail(s)) ELSE 0

\* re.search(r"^\| File\s+\|.+\|$", ..., re.MULTILINE) on one line.
HeaderMatches(line) ==
    /\ Len(line) >= 3
    /\ line[1] = "|" /\ line[2] = " " /\ line[3] = "File"
    /\ LET blanks == SpaceRun(SubSeq(line, 4, Len(line)))
       IN  /\ blanks >= 1
           /\ Len(line) >= 3 + blanks + 3
           /\ line[4 + blanks] = "|"
           /\ line[Len(line)] = "|"

\* re.findall(r"^\| src/.+\|$", ..., re.MULTILINE) on one line.
RowMatches(line) ==
    /\ Len(line) >= 5
    /\ line[1] = "|" /\ line[2] = " " /\ line[3] = "src/"
    /\ line[Len(line)] = "|"

\* str.strip(chars): the tokens of `chars` are removed from both ends.
RECURSIVE StripLeft(_, _)
StripLeft(s, chars) ==
    IF s # <<>> /\ Head(s) \in chars THEN StripLeft(Tail(s), chars) ELSE s

RECURSIVE StripRight(_, _)
StripRight(s, chars) ==
    IF s # <<>> /\ s[Len(s)] \in chars
    THEN StripRight(SubSeq(s, 1, Len(s) - 1), chars)
    ELSE s

\* The length of a match of \s+\|\s+ at the front of s; 0 when there is none.
SeparatorLen(s) ==
    LET before == SpaceRun(s)
    IN  IF /\ before >= 1
           /\ Len(s) >= before + 2
           /\ s[before + 1] = "|"
           /\ s[before + 2] = " "
        THEN before + 1 + SpaceRun(SubSeq(s, before + 2, Len(s)))
        ELSE 0

\* re.split(r"\s+\|\s+", s): `column` is the part read since the last match.
RECURSIVE SplitColumns(_, _)
SplitColumns(s, column) ==
    IF s = <<>> THEN <<column>>
    ELSE IF SeparatorLen(s) > 0
         THEN <<column>> \o SplitColumns(SubSeq(s, SeparatorLen(s) + 1, Len(s)), <<>>)
         ELSE SplitColumns(Tail(s), Append(column, Head(s)))

\* [col.strip() for col in re.split(r"\s+\|\s+", row_line.strip("| "))]
Columns(row_line) ==
    LET split == SplitColumns(StripRight(StripLeft(row_line, {"|", " "}), {"|", " "}), <<>>)
    IN  [k \in 1..Len(split) |-> StripRight(StripLeft(split[k], {" "}), {" "})]

\* toNamedDataFrame up to the construction of the frame: the header is the
\* first line the header pattern matches, rows_match the lines the row pattern
\* matches, in order, and data the columns of each of them.
toNamedDataFrame(input_data) ==
    LET header_match == SelectSeq(input_data, HeaderMatches)
        rows_match == SelectSeq(input_data, RowMatches)
    IN  IF header_match = <<>> \/ rows_match = <<>>
        THEN [raised |-> "ValueError", header |-> <<>>, data |-> <<>>]
        ELSE [raised |-> "",
              header |-> Columns(header_match[1]),
              data   |-> [k \in 1..Len(rows_match) |-> Columns(rows_match[k])]]

\* compare-gas is not running: its state is the one before a run on no input.
GasFilterIdle ==
    /\ raw_lines = <<>> /\ rel_tol = <<0, 1>> /\ abs_tol = <<0, 1>>
    /\ diff_lines = <<>>
    /\ i = 1
    /\ filtered_lines = <<>>
    /\ has_exceed = FALSE
    /\ emitted = <<>>
    /\ collapsed = {}
    /\ compared = {}
    /\ parse_calls = {}
    /\ stdout = <<>>
    /\ exit_status = -1

CoverageInit ==
    /\ GasFilterIdle
    /\ pc = "coverage"
    /\ \E input_data \in UNION {[1..m -> TableLines] : m \in 0..MaxTable} :
           tables = [input_data |-> input_data, raised |-> "", header |-> <<>>, data |-> <<>>]
    /\ imp = NotRunning /\ erc20 = NotRunning /\ anvil = NotRunning

\* One call of toNamedDataFrame: it returns the frame or raises ValueError.
ToNamedDataFrame ==
    /\ pc = "coverage"
    /\ tables' = [input_data |-> tables.input_data] @@ toNamedDataFrame(tables.input_data)
    /\ pc' = IF toNamedDataFrame(tables.input_data).raised = ""
             THEN "coverage_returned"
             ELSE "coverage_raised"
    /\ UNCHANGED <<gas_filter, imp, erc20, anvil>>

CoverageSpec == CoverageInit /\ [][ToNamedDataFrame]_vars

\* The File column of the returned frame.
FileColumn(data) == [k \in 1..Len(data) |-> data[k][1]]

\* A data row of the coverage table: a '| ... |' line that is neither the
\* header nor a border.
IsDataRow(line) ==
    /\ Len(line) >= 5
    /\ line[1] = "|" /\ line[Len(line)] = "|"
    /\ ~HeaderMatches(line)
    /\ \E k \in 1..Len(line) : line[k] \notin {"|", "-", "+", "=", " "}

EndsInSSol(name) ==
    Len(name) >= 2 /\ name[Len(name) - 1] = ".s" /\ name[Len(name)] = ".sol"

KeptRow(line) == IsDataRow(line) /\ ~EndsInSSol(Columns(line)[1])

\* C22: toNamedDataFrame returns, in input order, every data row of the
\* coverage table except rows whose file name ends in '.s.sol'; rows for files
\* under script/ and the 'Total' row are kept alongside rows under src/.
C22_AllRowsButScripts ==
    (/\ pc \in {"coverage_returned", "coverage_raised"}
     /\ \E k \in 1..Len(tables.input_data) : HeaderMatches(tables.input_data[k])
     /\ SelectSeq(tables.input_data, KeptRow) # <<>>)
        => /\ tables.raised = ""
           /\ FileColumn(tables.data) =
                  FileColumn([k \in 1..Len(SelectSeq(tables.input_data, KeptRow)) |->
                                 Columns(SelectSeq(tables.input_data, KeptRow)[k])])

\* ---------------------------------------------------------------------------
\* compare-gas.py: the scan of filter_colored_diff_lines as a whole
\* ---------------------------------------------------------------------------

\* The lines from index a up to, not including, index b are all removed or added.
AllChange(a, b) == \A k \in a..(b - 1) : IsChange(LineAt(diff_lines, k))

\* C23: the single forward pass partitions the input: every step of the scan
\* consumes the indices from i up to the new i, which is larger, either one
\* line that is neither removed nor added, or one chunk; a chunk is a maximal
\* contiguous run of removed/added lines (the line before it and the line
\* after it, when they exist, are neither removed nor added), and the scan
\* ends only when every index has been consumed.
C23_MaximalChunks ==
    [][pc = "loop" =>
          /\ i' >= i
          /\ pc' = "exit" => i = Len(diff_lines) + 1
          /\ i' # i =>
               \/ ~IsChange(LineAt(diff_lines, i)) /\ i' = i + 1
               \/ /\ AllChange(i, i')
                  /\ i > 1 => ~IsChange(LineAt(diff_lines, i - 1))
                  /\ i' <= Len(diff_lines) => ~IsChange(LineAt(diff_lines, i'))]_vars

\* The scan has consumed a chunk of two lines and stands on the line after it,
\* which is neither removed nor added.
C23_Witness ==
    /\ pc = "loop"
    /\ Len(diff_lines) = 3
    /\ i = 3
    /\ AllChange(1, 3)
    /\ ~IsChange(LineAt(diff_lines, 3))

\* The longest input of a run whose chunk has two function names on both sides
\* or two groups of non-data rows.
MaxOrder == 4

Minus_g70 == <<"-">> \o Row("g", <<"7", "0">>)
Plus_bar  == <<"+", "|", "=", "|">>

\* Runs on a removed and an added row of f (equal values), of g (70 and 80), a
\* removed rule, an added bar, a context row and a hunk header, with no tolerance.
OrderInit ==
    /\ Fresh
    /\ pc = "main"
    /\ raw_lines \in UNION {[1..n -> {Minus_f80, GreenPlus_f80, Minus_g70, Plus_g80,
                                       Minus_rule, Plus_bar, Context_f70, Hunk}] :
                                 n \in 0..MaxOrder}
    /\ rel_tol = <<0, 1>>
    /\ abs_tol = <<0, 1>>

OrderSpec == OrderInit /\ [][Next]_vars

\* C24: the filter is deterministic: the lines appended for a chunk and the
\* verdict after it are those of every order in which the paired function
\* names and the non-data content groups of the chunk can be iterated.
C24_OrderIrrelevant ==
    [][(/\ pc = "loop" /\ pc' = "loop"
        /\ i <= Len(diff_lines)
        /\ Branch(LineAt(diff_lines, i)) = "chunk")
          => \A forder \in Orders(PairedNames(diff_lines, i)),
                norder \in Orders(NonDataNorms(diff_lines, i)) :
                 /\ filtered_lines' =
                        filtered_lines \o
                          ProcessChunk(diff_lines, i, rel_tol, abs_tol, forder, norder).out
                 /\ has_exceed' =
                        (has_exceed \/
                          ProcessChunk(diff_lines, i, rel_tol, abs_tol, forder, norder).exceed)]_vars

\* A chunk with two function names on both sides was filtered: one pair was
\* collapsed, the other exceeded the tolerance.
C24_Witness ==
    /\ Done
    /\ Cardinality(compared) = 2
    /\ Cardinality(collapsed) = 1
    /\ has_exceed

\* ---------------------------------------------------------------------------
\* anvil.py: with_impersonation.  imp holds the arguments, the address
\* impersonated, the log of what was done (RPCs, commands of the callback, the
\* end of the callback) and how the call ended.
\* ---------------------------------------------------------------------------

\* None where an address is expected.
NoAddress == "None"

\* The most commands a callback runs.
MaxCommands == 2

\* The identities with_impersonation is called with: none, two addresses and a
\* name that bcinfo resolves.
Identities == {NoAddress, "0xa1", "0xb2", "treasury"}

\* address_of: an address is returned as it is; a name is looked up and, when
\* nothing is found, returned as it is.
address_of(wallet) ==
    IF wallet \in {"0xa1", "0xb2"} THEN {wallet} ELSE {"0xc3", wallet}

ImpersonateInit ==
    /\ GasFilterIdle
    /\ pc = "with_impersonation"
    /\ \E identity \in Identities :
           imp = [identity |-> identity, impersonation_address |-> NoAddress,
                  callback_arg |-> "-", commands |-> 0, log |-> <<>>, ended |-> "-"]
    /\ tables = NotRunning /\ erc20 = NotRunning /\ anvil = NotRunning

\* The mutation of AfterCallback that cleans up only after a callback that returned.
AfterCallback_returned(how) ==
    IF how = "returned" THEN "finally" ELSE "ended"

\* try/finally: however the callback ends, the finally block runs next.
AfterCallback(how) == "finally"

\* "if identity:" with run_command(anvil_impersonateAccount) succeeding.
Impersonate ==
    /\ pc = "with_impersonation"
    /\ imp.identity # NoAddress
    /\ \E a \in address_of(imp.identity) :
           imp' = [imp EXCEPT !.impersonation_address = a,
                              !.callback_arg = a,
                              !.log = Append(@, <<"anvil_impersonateAccount", a>>)]
    /\ pc' = "callback"
    /\ UNCHANGED <<gas_filter, tables, erc20, anvil>>

\* run_command(anvil_impersonateAccount) fails: sys.exit before the try.
ImpersonateFails ==
    /\ pc = "with_impersonation"
    /\ imp.identity # NoAddress
    /\ \E a \in address_of(imp.identity) :
           imp' = [imp EXCEPT !.impersonation_address = a,
                              !.log = Append(@, <<"anvil_impersonateAccount failed", a>>),
                              !.ended = "exited"]
    /\ pc' = "ended"
    /\ UNCHANGED <<gas_filter, tables, erc20, anvil>>

\* "else:": the callback is called with None.
NoImpersonation ==
    /\ pc = "with_impersonation"
    /\ imp.identity = NoAddress
    /\ imp' = [imp EXCEPT !.callback_arg = NoAddress]
    /\ pc' = "callback"
    /\ UNCHANGED <<gas_filter, tables, erc20, anvil>>

\* The callback runs a command with run_command and the command succeeds.
CallbackCommand ==
    /\ pc = "callback"
    /\ imp.commands < MaxCommands
    /\ imp' = [imp EXCEPT !.commands = @ + 1,
                          !.log = Append(@, <<"cast send", imp.callback_arg>>)]
    /\ UNCHANGED <<pc, gas_filter, tables, erc20, anvil>>

\* The callback ends: it returns, it raises an exception, or a command it ran
\* with run_command failed and sys.exit raised SystemExit.  With an identity
\* the finally block is next, without one with_impersonation is left.
CallbackEnd ==
    /\ pc = "callback"
    /\ \E how \in {"returned", "raised", "exited"} :
           /\ imp' = [imp EXCEPT !.log = Append(@, <<"callback", how>>), !.ended = how]
           /\ pc' = IF imp.identity # NoAddress THEN AfterCallback(how) ELSE "ended"
    /\ UNCHANGED <<gas_filter, tables, erc20, anvil>>

\* "finally:" run_command(anvil_stopImpersonatingAccount); when the command
\* fails, sys.exit replaces the way the callback ended.
StopImpersonating ==
    /\ pc = "finally"
    /\ \E ok \in BOOLEAN :
           imp' = [imp EXCEPT
                     !.log = Append(@, <<"anvil_stopImpersonatingAccount",
                                         imp.impersonation_address>>),
                     !.ended = IF ok THEN @ ELSE "exited"]
    /\ pc' = "ended"
    /\ UNCHANGED <<gas_filter, tables, erc20, anvil>>

ImpersonateNext ==
    \/ Impersonate
    \/ ImpersonateFails
    \/ NoImpersonation
    \/ CallbackCommand
    \/ CallbackEnd
    \/ StopImpersonating

ImpersonateSpec == ImpersonateInit /\ [][ImpersonateNext]_vars

\* The positions of the log at which the event e stands.
LogAt(e) == {k \in 1..Len(imp.log) : imp.log[k] = e}

\* The RPCs of impersonation in the log, for any address.
ImpersonationRpcs ==
    {k \in 1..Len(imp.log) :
        imp.log[k][1] \in {"anvil_impersonateAccount", "anvil_impersonateAccount failed",
                           "anvil_stopImpersonatingAccount"}}

\* C25: with_impersonation brackets the callback: when an identity is given
\* and anvil_impersonateAccount succeeded for its address, once the call has
\* ended anvil_stopImpersonatingAccount has been issued for the same address,
\* once and after the end of the callback, whether the callback returned,
\* raised or exited the process; when no identity is given no RPC is issued
\* and the callback is called with None.
C25_Brackets ==
    /\ (pc = "ended" /\ imp.identity # NoAddress
          /\ LogAt(<<"anvil_impersonateAccount", imp.impersonation_address>>) # {})
         => /\ imp.callback_arg = imp.impersonation_address
            /\ \E k \in LogAt(<<"anvil_stopImpersonatingAccount", imp.impersonation_address>>) :
                 /\ k = Len(imp.log)
                 /\ imp.log[k - 1][1] = "callback"
                 /\ LogAt(<<"anvil_stopImpersonatingAccount", imp.impersonation_address>>) = {k}
                 /\ LogAt(<<"anvil_impersonateAccount", imp.impersonation_address>>) = {1}
    /\ (pc \in {"callback", "ended"} /\ imp.identity = NoAddress)
         => /\ ImpersonationRpcs = {}
            /\ imp.callback_arg = NoAddress

\* A callback called under impersonation ran a command, then exited the
\* process, and the impersonation was stopped.
C25_Witness ==
    /\ pc = "ended"
    /\ imp.identity = "treasury"
    /\ imp.commands = 1
    /\ imp.log[Len(imp.log) - 1] = <<"callback", "exited">>
    /\ imp.log[Len(imp.log)] = <<"anvil_stopImpersonatingAccount", imp.impersonation_address>>

\* ---------------------------------------------------------------------------
\* anvil.py: grab_erc20.  erc20 holds the locals of the call, the addresses
\* impersonated and the transfers sent so far, and how the call ended.
\* ---------------------------------------------------------------------------

block_window == 2000

\* The most block windows a scan goes through.
MaxWindows == 3

\* The latest block numbers: fewer blocks than a window, exactly a window, and
\* chains of two and more windows.
LatestBlocks ==
    {0, block_window - 1, block_window} \cup
    {n * (block_window + 1) : n \in 1..(MaxWindows - 1)}

\* The recipients named by Transfer events: the wallet itself, the zero
\* address and two holders, in lower case.
Addresses == {"0xwa11e7", "0x0000", "0xh01de4", "0xh01de5"}

\* The window queued after one that started at start_block:
\* "if start_block > 0: ... blocks_to_check.append((new_start, new_end))".
EarlierWindow_unguarded(start_block) ==
    << <<IF start_block - 1 - block_window > 0 THEN start_block - 1 - block_window ELSE 0,
         start_block - 1>> >>

EarlierWindow(start_block) ==
    IF start_block > 0
    THEN << <<IF start_block - 1 - block_window > 0 THEN start_block - 1 - block_window ELSE 0,
              start_block - 1>> >>
    ELSE <<>>

\* The mutation of wei_to_steal that takes 90% of the balance whatever is needed.
wei_to_steal_uncapped(wei_pawn_holding, need) == (wei_pawn_holding * 9) \div 10

\* min(wei_pawn_holding * 9 // 10, wei_amount - wei_amount_transferred)
wei_to_steal(wei_pawn_holding, need) ==
    IF (wei_pawn_holding * 9) \div 10 < need THEN (wei_pawn_holding * 9) \div 10 ELSE need

\* The locals after "blocks_to_check = [(latest_block - block_window, latest_block)]".
GrabInit ==
    /\ GasFilterIdle
    /\ pc = "grab_while"
    /\ \E wei_amount \in {0, 1800000, 3000000}, latest_block \in LatestBlocks :
           erc20 = [wallet_address |-> "0xwa11e7",
                    wei_amount |-> wei_amount,
                    wei_amount_transferred |-> 0,
                    eth_amount_transferred |-> <<>>,
                    done |-> {"0xwa11e7"},
                    blocks_to_check |-> << <<latest_block - block_window, latest_block>> >>,
                    start_block |-> latest_block,
                    recipients |-> {},
                    impersonated |-> <<>>,
                    transfers |-> <<>>,
                    queued |-> <<>>,
                    ended |-> "-"]
    /\ tables = NotRunning /\ imp = NotRunning /\ anvil = NotRunning

\* start_block after "start_block, end_block = blocks_to_check.pop(0)" and the
\* clamp to 0.
PoppedStart == IF erc20.blocks_to_check[1][1] < 0 THEN 0 ELSE erc20.blocks_to_check[1][1]

\* The loop takes a window and "cast logs" fails, prints nothing, or prints
\* what is not JSON: an earlier window is queued and the loop continues.
GrabWindowSkipped ==
    /\ pc = "grab_while"
    /\ erc20.blocks_to_check # <<>> /\ erc20.wei_amount_transferred < erc20.wei_amount
    /\ erc20' = [erc20 EXCEPT
                   !.start_block = PoppedStart,
                   !.blocks_to_check = Tail(@) \o EarlierWindow(PoppedStart),
                   !.queued = Append(@, [after |-> PoppedStart,
                                         windows |-> EarlierWindow(PoppedStart)])]
    /\ UNCHANGED <<pc, gas_filter, tables, imp, anvil>>

\* The loop takes a window and "cast logs" prints events: their recipients are
\* the holders to look at.
GrabWindowLogs ==
    /\ pc = "grab_while"
    /\ erc20.blocks_to_check # <<>> /\ erc20.wei_amount_transferred < erc20.wei_amount
    /\ \E recipients \in SUBSET Addresses :
           erc20' = [erc20 EXCEPT !.start_block = PoppedStart,
                                  !.blocks_to_check = Tail(@),
                                  !.recipients = recipients]
    /\ pc' = "grab_for"
    /\ UNCHANGED <<gas_filter, tables, imp, anvil>>

\* "for to_address in set(recipients)": an address already in done or the zero
\* address is passed over; any other address is added to done, and is passed
\* over when its balance cannot be read or is not above 1000000.
GrabHolderSkipped ==
    /\ pc = "grab_for"
    /\ \E to_address \in erc20.recipients :
           erc20' = [erc20 EXCEPT
                       !.recipients = @ \ {to_address},
                       !.done = IF to_address \in erc20.done \/ to_address = "0x0000"
                                THEN @
                                ELSE @ \cup {to_address}]
    /\ UNCHANGED <<pc, gas_filter, tables, imp, anvil>>

\* A holder with a balance above 1000000: the amount is computed, the holder is
\* impersonated, the transfer is sent, the impersonation stopped and the
\* totals are updated; the function returns when the amount is reached.
GrabHolderTransfer ==
    /\ pc = "grab_for"
    /\ \E to_address \in erc20.recipients, wei_pawn_holding \in {2000000, 4000000} :
         LET need == erc20.wei_amount - erc20.wei_amount_transferred
             steal == wei_to_steal(wei_pawn_holding, need)
         IN  /\ to_address \notin erc20.done /\ to_address # "0x0000"
             /\ erc20' = [erc20 EXCEPT
                   !.recipients = @ \ {to_address},
                   !.done = @ \cup {to_address},
                   !.impersonated = Append(@, to_address),
                   !.transfers = Append(@, [from |-> to_address, amount |-> steal,
                                            holding |-> wei_pawn_holding, need |-> need]),
                   !.wei_amount_transferred = @ + steal,
                   !.eth_amount_transferred = <<erc20.wei_amount_transferred + steal>>,
                   !.ended = IF erc20.wei_amount_transferred + steal >= erc20.wei_amount
                             THEN "returned" ELSE @]
             /\ pc' = IF erc20.wei_amount_transferred + steal >= erc20.wei_amount
                      THEN "grab_ended" ELSE "grab_for"
    /\ UNCHANGED <<gas_filter, tables, imp, anvil>>

\* A command run with run_command for a holder fails and sys.exit ends the
\* script: before the holder is impersonated, under impersonation before the
\* transfer was sent, or after it was sent.
GrabHolderExit ==
    /\ pc = "grab_for"
    /\ \E to_address \in erc20.recipients, wei_pawn_holding \in {2000000, 4000000},
          stage \in {"from-wei", "send", "stop"} :
         LET need == erc20.wei_amount - erc20.wei_amount_transferred
             steal == wei_to_steal(wei_pawn_holding, need)
         IN  /\ to_address \notin erc20.done /\ to_address # "0x0000"
             /\ erc20' = [erc20 EXCEPT
                   !.done = @ \cup {to_address},
                   !.impersonated = IF stage = "from-wei" THEN @ ELSE Append(@, to_address),
                   !.transfers = IF stage = "stop"
                                 THEN Append(@, [from |-> to_address, amount |-> steal,
                                                 holding |-> wei_pawn_holding, need |-> need])
                                 ELSE @,
                   !.ended = "exited"]
    /\ pc' = "grab_ended"
    /\ UNCHANGED <<gas_filter, tables, imp, anvil>>

\* The holders of the window are done: "if wei_amount_transferred < wei_amount
\* and start_block > 0" an earlier window is queued.
GrabWindowDone ==
    /\ pc = "grab_for"
    /\ erc20.recipients = {}
    /\ LET earlier == IF erc20.wei_amount_transferred < erc20.wei_amount
                      THEN EarlierWindow(erc20.start_block)
                      ELSE <<>>
       IN  erc20' = [erc20 EXCEPT
                       !.blocks_to_check = @ \o earlier,
                       !.queued = Append(@, [after |-> erc20.start_block,
                                             windows |-> earlier])]
    /\ pc' = "grab_while"
    /\ UNCHANGED <<gas_filter, tables, imp, anvil>>

\* The while loop is left.  "if wei_amount_transferred < wei_amount": the
\* missing amount is converted (the command may fail) and the warning is
\* printed; it reads eth_amount_transferred, and reading a local that was
\* never assigned raises UnboundLocalError.
GrabScanEnd ==
    /\ pc = "grab_while"
    /\ ~(erc20.blocks_to_check # <<>> /\ erc20.wei_amount_transferred < erc20.wei_amount)
    /\ \E from_wei_ok \in BOOLEAN :
           erc20' = [erc20 EXCEPT !.ended =
                       IF erc20.wei_amount_transferred >= erc20.wei_amount THEN "returned"
                       ELSE IF ~from_wei_ok THEN "exited"
                       ELSE IF erc20.eth_amount_transferred = <<>> THEN "UnboundLocalError"
                       ELSE "warned"]
    /\ pc' = "grab_ended"
    /\ UNCHANGED <<gas_filter, tables, imp, anvil>>

GrabNext ==
    \/ GrabWindowSkipped
    \/ GrabWindowLogs
    \/ GrabHolderSkipped
    \/ GrabHolderTransfer
    \/ GrabHolderExit
    \/ GrabWindowDone
    \/ GrabScanEnd

GrabSpec == GrabInit /\ [][GrabNext]_vars

\* Every external command returns and the interpreter keeps running the script.
GrabFairSpec == GrabSpec /\ WF_vars(GrabNext)

\* The sum of the amounts of the transfers sent.
RECURSIVE SumAmounts(_)
SumAmounts(transfers) ==
    IF transfers = <<>> THEN 0 ELSE Head(transfers).amount + SumAmounts(Tail(transfers))

\* C26: at every point of the holder scan the total amount transferred never
\* exceeds the requested amount, each transfer being capped at the remaining
\* need and at 90% of the holder's balance; no holder address is impersonated
\* more than once; the recipient wallet and the zero address are never a source.
C26_CappedAndOnce ==
    /\ erc20.wei_amount_transferred <= erc20.wei_amount
    /\ SumAmounts(erc20.transfers) <= erc20.wei_amount
    /\ \A k \in 1..Len(erc20.transfers) :
           /\ erc20.transfers[k].amount <= erc20.transfers[k].need
           /\ 10 * erc20.transfers[k].amount <= 9 * erc20.transfers[k].holding
    /\ \A a, b \in 1..Len(erc20.impersonated) :
           a # b => erc20.impersonated[a] # erc20.impersonated[b]
    /\ \A a \in 1..Len(erc20.impersonated) :
           erc20.impersonated[a] \notin {erc20.wallet_address, "0x0000"}

\* Two holders were impersonated one after the other; the second transfer was
\* capped at what was still needed and completed the requested amount.
C26_Witness ==
    /\ pc = "grab_ended"
    /\ Len(erc20.transfers) = 2
    /\ erc20.transfers[2].amount = erc20.transfers[2].need
    /\ 10 * erc20.transfers[2].amount < 9 * erc20.transfers[2].holding
    /\ erc20.wei_amount_transferred = erc20.wei_amount

\* C27: the block-window scan terminates for every latest block number and
\* every sequence of results of the external commands: each queued window ends
\* strictly below the start of the window just processed, at most one window
\* is queued at a time, and nothing is queued once a window starting at block
\* 0 has been processed.
C27_ScanTerminates ==
    /\ [](\A k \in 1..Len(erc20.queued) :
             /\ Len(erc20.queued[k].windows) <= 1
             /\ erc20.queued[k].windows # <<>> =>
                    /\ erc20.queued[k].windows[1][2] < erc20.queued[k].after
                    /\ erc20.queued[k].after > 0)
    /\ [](Len(erc20.blocks_to_check) <= 1)
    /\ <>(pc = "grab_ended")

\* Three windows were processed, the last one starting at block 0, and the
\* scan has ended.
C27_Witness ==
    /\ pc = "grab_ended"
    /\ Len(erc20.queued) = 3
    /\ erc20.queued[3].after = 0
    /\ erc20.queued[2].windows # <<>>

\* C28: when grab_erc20 runs out of block windows before reaching the
\* requested amount and no command failed, it ends by printing the shortfall
\* warning; every value the warning reads has been assigned, also when no
\* holder was found.
C28_ShortfallWarned ==
    (/\ pc = "grab_ended"
     /\ erc20.wei_amount_transferred < erc20.wei_amount
     /\ erc20.ended # "exited")
        => erc20.ended = "warned"

\* ---------------------------------------------------------------------------
\* anvil.py: start.  anvil holds the position of the main thread, of the
\* SIGINT handler (which runs on the main thread, between two of its steps:
\* the main thread takes a step only while no handler is running)
\* and of the readiness-waiting thread, the local anvil_process, the child
\* process and the signals sent to it, and whether the script still runs.
\* ---------------------------------------------------------------------------

\* The most SIGINTs delivered to the script.
MaxSigints == 2

\* After signal.signal(SIGINT, signal_handler) and anvil_thread.start(), with
\* the command built for the chain id given, if any.
StartInit ==
    /\ GasFilterIdle
    /\ pc = "start"
    /\ \E cmd \in {<<"anvil", "-f", "mainnet">>,
                    <<"anvil", "-f", "mainnet", "--chain-id", "31337">>} :
           anvil = [cmd |-> cmd, main |-> "popen", handler |-> "idle", installed |-> TRUE,
                    waiter |-> "polling", anvil_process |-> "None", child |-> "none",
                    signals |-> <<>>, sigints |-> 0, script |-> "running"]
    /\ tables = NotRunning /\ imp = NotRunning /\ erc20 = NotRunning

\* subprocess.Popen(cmd) creates the child and returns, or raises because
\* anvil cannot be executed.
Spawn ==
    /\ anvil.script = "running" /\ anvil.handler = "idle"
    /\ anvil.main = "popen"
    /\ \E ok \in BOOLEAN :
           anvil' = IF ok
                    THEN [anvil EXCEPT !.main = "assign", !.child = "running"]
                    ELSE [anvil EXCEPT !.main = "finally"]
    /\ UNCHANGED <<pc, gas_filter, tables, imp, erc20>>

\* "anvil_process = ...": the value Popen returned is stored in the local.
Assign ==
    /\ anvil.script = "running" /\ anvil.handler = "idle"
    /\ anvil.main = "assign"
    /\ anvil' = [anvil EXCEPT !.main = "wait", !.anvil_process = "Popen"]
    /\ UNCHANGED <<pc, gas_filter, tables, imp, erc20>>

\* The child ends, on its own or because of a signal.
ChildExits ==
    /\ anvil.child = "running"
    /\ anvil' = [anvil EXCEPT !.child = "exited"]
    /\ UNCHANGED <<pc, gas_filter, tables, imp, erc20>>

\* anvil_process.wait() returns once the child has ended.
WaitReturns ==
    /\ anvil.script = "running" /\ anvil.handler = "idle"
    /\ anvil.main = "wait"
    /\ anvil.child = "exited"
    /\ anvil' = [anvil EXCEPT !.main = "finally"]
    /\ UNCHANGED <<pc, gas_filter, tables, imp, erc20>>

\* "finally:" the original handler is restored; then, "if anvil_process and
\* anvil_process.poll() is None", the child is sent SIGKILL, and start ends.
Finally ==
    /\ anvil.script = "running" /\ anvil.handler = "idle"
    /\ anvil.main \in {"finally", "restored"}
    /\ anvil' =
         IF anvil.main = "finally"
         THEN [anvil EXCEPT !.main = "restored", !.installed = FALSE]
         ELSE [anvil EXCEPT
                 !.main = "returned",
                 !.script = "exited",
                 !.signals = IF anvil.anvil_process # "None" /\ anvil.child = "running"
                             THEN Append(@, "SIGKILL") ELSE @]
    /\ UNCHANGED <<pc, gas_filter, tables, imp, erc20>>

\* SIGINT reaches the script: signal_handler is entered between two steps of
\* the main thread, or again while the handler sleeps; once the original
\* handler is back, KeyboardInterrupt is raised in the finally block and ends
\* the script.
Sigint ==
    /\ anvil.script = "running" /\ anvil.handler \in {"idle", "slept"}
    /\ anvil.main # "returned"
    /\ anvil.sigints < MaxSigints
    /\ anvil' = IF anvil.installed
                THEN [anvil EXCEPT !.handler = "entered", !.sigints = @ + 1]
                ELSE [anvil EXCEPT !.script = "exited", !.sigints = @ + 1]
    /\ UNCHANGED <<pc, gas_filter, tables, imp, erc20>>

\* signal_handler: "if anvil_process:" SIGTERM is sent and the handler sleeps;
\* otherwise os._exit(0) at once.
HandlerTerminate ==
    /\ anvil.script = "running" /\ anvil.handler = "entered"
    /\ anvil' = IF anvil.anvil_process # "None"
                THEN [anvil EXCEPT !.handler = "slept", !.signals = Append(@, "SIGTERM")]
                ELSE [anvil EXCEPT !.handler = "exit", !.script = "exited"]
    /\ UNCHANGED <<pc, gas_filter, tables, imp, erc20>>

\* signal_handler after the sleep: "if anvil_process.poll() is None" SIGKILL
\* is sent; then os._exit(0).
HandlerKill ==
    /\ anvil.script = "running" /\ anvil.handler = "slept"
    /\ anvil' = [anvil EXCEPT
                   !.handler = "exit",
                   !.script = "exited",
                   !.signals = IF anvil.child = "running" THEN Append(@, "SIGKILL") ELSE @]
    /\ UNCHANGED <<pc, gas_filter, tables, imp, erc20>>

\* wait_for_anvil, a daemon thread: it polls the port until anvil listens,
\* then runs its commands; a command that fails raises SystemExit, which ends
\* the thread and nothing else.
WaiterStep ==
    /\ anvil.script = "running"
    /\ \/ /\ anvil.waiter = "polling" /\ anvil.child = "running"
          /\ anvil' = [anvil EXCEPT !.waiter = "impersonate"]
       \/ /\ anvil.waiter = "impersonate"
          /\ \E ok \in BOOLEAN :
                 anvil' = [anvil EXCEPT !.waiter = IF ok THEN "grab" ELSE "ended"]
       \/ /\ anvil.waiter = "grab"
          /\ anvil' = [anvil EXCEPT !.waiter = "ended"]
    /\ UNCHANGED <<pc, gas_filter, tables, imp, erc20>>

StartNext ==
    \/ Spawn
    \/ Assign
    \/ ChildExits
    \/ WaitReturns
    \/ Finally
    \/ Sigint
    \/ HandlerTerminate
    \/ HandlerKill
    \/ WaiterStep

StartSpec == StartInit /\ [][StartNext]_vars

\* C29: for every interleaving of the SIGINT handler, the readiness-waiting
\* thread and the main thread, once the child has been spawned the script
\* never exits while the child is running without having sent it a signal.
C29_NoOrphan ==
    (anvil.script = "exited" /\ anvil.child = "running") => anvil.signals # <<>>

\* ---------------------------------------------------------------------------
\* forge_tables.py: extract.  A line is a sequence of characters; an entry of
\* the result is the characters of its lines with "\n" between the lines.
\* ---------------------------------------------------------------------------

\* The longest log given to extract, in lines.
MaxLog == 3

\* re.match(r"^[|+][ -+|=]+[|+]$", line): in the class, " -+" is the range of
\* characters from the blank to the plus sign.
IgnoredLine(line) ==
    /\ Len(line) >= 3
    /\ line[1] \in {"|", "+"}
    /\ line[Len(line)] \in {"|", "+"}
    /\ \A k \in 2..(Len(line) - 1) :
           line[k] \in {" ", "!", "\"", "#", "$", "%", "&", "'", "(", ")", "*", "+", "|", "="}

\* re.match(r"^[|].+[|]$", line)
TableLine(line) ==
    /\ Len(line) >= 3
    /\ line[1] = "|"
    /\ line[Len(line)] = "|"

\* "for line in log_data.splitlines()": result and in_group after the lines.
RECURSIVE ExtractLoop(_, _, _)
ExtractLoop(lines, result, in_group) ==
    IF lines = <<>> THEN result
    ELSE IF IgnoredLine(Head(lines)) THEN ExtractLoop(Tail(lines), result, in_group)
    ELSE IF TableLine(Head(lines))
         THEN IF ~in_group
              THEN ExtractLoop(Tail(lines), Append(result, Head(lines)), TRUE)
              ELSE ExtractLoop(Tail(lines),
                               [result EXCEPT ![Len(result)] = @ \o <<"\n">> \o Head(lines)],
                               TRUE)
         ELSE ExtractLoop(Tail(lines), result, FALSE)

\* Logs of table rows, borders drawn with '-' and with '=', borders with '+'
\* at the corners, a line of text and an empty line.
ExtractInit ==
    /\ GasFilterIdle
    /\ pc = "extract"
    /\ \E log_data \in UNION {[1..n -> {<<"|", "a", "|">>, <<"|", "-", "|">>, <<"|", "=", "|">>,
                                        <<"+", "-", "+">>, <<"+", "=", "+">>, <<"x">>, <<>>}] :
                                n \in 0..MaxLog} :
           tables = [log_data |-> log_data, result |-> <<>>]
    /\ imp = NotRunning /\ erc20 = NotRunning /\ anvil = NotRunning

\* One call of extract.
Extract ==
    /\ pc = "extract"
    /\ tables' = [tables EXCEPT !.result = ExtractLoop(tables.log_data, <<>>, FALSE)]
    /\ pc' = "extracted"
    /\ UNCHANGED <<gas_filter, imp, erc20, anvil>>

ExtractSpec == ExtractInit /\ [][Extract]_vars

\* A border line: it starts and ends with '|' or '+' and has nothing but the
\* characters borders are drawn with.
BorderLine(line) ==
    /\ Len(line) >= 2
    /\ line[1] \in {"|", "+"}
    /\ line[Len(line)] \in {"|", "+"}
    /\ \A k \in 1..Len(line) : line[k] \in {"|", "+", "-", "="}

\* The groups of a log: the lines of each maximal run of '|...|' lines, border
\* lines left out and not ending a run.
RECURSIVE Groups(_, _, _)
Groups(lines, groups, open) ==
    IF lines = <<>> THEN groups
    ELSE IF BorderLine(Head(lines)) THEN Groups(Tail(lines), groups, open)
    ELSE IF TableLine(Head(lines))
         THEN IF open
              THEN Groups(Tail(lines),
                          [groups EXCEPT ![Len(groups)] = Append(@, Head(lines))], TRUE)
              ELSE Groups(Tail(lines), Append(groups, <<Head(lines)>>), TRUE)
         ELSE Groups(Tail(lines), groups, FALSE)

\* The lines of a group joined by newlines.
RECURSIVE Joined(_)
Joined(group) ==
    IF Len(group) = 1 THEN group[1]
    ELSE group[1] \o <<"\n">> \o Joined(Tail(group))

\* C30: extract returns one entry per table group, in input order: a group
\* starts at a '|...|' line seen while no group is open, is extended by every
\* following '|...|' line and is closed by the first line that is neither a
\* '|...|' line nor a border line; border lines are skipped and neither start,
\* extend nor close a group; each entry is the group's lines joined by newlines.
C30_GroupsSkipBorders ==
    pc = "extracted" =>
        tables.result =
            [k \in 1..Len(Groups(tables.log_data, <<>>, FALSE)) |->
                Joined(Groups(tables.log_data, <<>>, FALSE)[k])]

============================================================================
